---- MODULE Spec2Model ----
(***************************************************************************)
(* Recovery dashboards: the SQL queries of the scorecard, the recovery     *)
(* dashboard and the reconciliation scripts, and the Python that post-     *)
(* processes their result sets, as operators over in-memory tables.        *)
(*                                                                         *)
(* A table is a sequence of rows (a bag).  A nullable SQL value is <<>>    *)
(* (NULL) or <<v>>.  A SQL string is a sequence of one-character strings,  *)
(* so that UPPER, LIKE, TRIM and CONCAT are computed character by          *)
(* character.  Dollar amounts are whole dollars; a win rate is kept in     *)
(* hundredths of a percent (ROUND(..., 2) of a percentage).                *)
(***************************************************************************)
EXTENDS Integers, Sequences, FiniteSets, TLC

VARIABLES
    cs,           \* merchant_portal_export.chargeback_split_summary
    sm,           \* restaurant_aggregate_metrics.slug_am_mapping
    coe,          \* merchant_portal_export.chargeback_orders_enriched
    today,        \* date.today() of the Python process
    currentDate,  \* CURRENT_DATE() of the warehouse
    input,        \* the arguments of a function called on its own
    op,           \* the query or function that ran last
    result        \* what it returned

vars == <<cs, sm, coe, today, currentDate, input, op, result>>

\* what a query reads and leaves alone
data == <<cs, sm, coe, today, currentDate, input>>

(***************************************************************************)
(* SQL values                                                              *)
(***************************************************************************)
Null == <<>>
Val(x) == <<x>>
IsNull(v) == v = Null
Coalesce(v, d) == IF v = Null THEN d ELSE v[1]

RECURSIVE SumSeq(_)
SumSeq(s) ==
    IF s = <<>> THEN 0
    ELSE IF Len(s) = 1 THEN s[1]
    ELSE LET half == Len(s) \div 2
         IN  SumSeq(SubSeq(s, 1, half)) + SumSeq(SubSeq(s, half + 1, Len(s)))

Map(s, F(_)) == [i \in 1..Len(s) |-> F(s[i])]

\* SUM(expr) over the rows of one aggregate: NULL over no rows.
SqlSum(s) == IF s = <<>> THEN Null ELSE Val(SumSeq(s))

Abs(x) == IF x < 0 THEN 0 - x ELSE x

(***************************************************************************)
(* SQL strings                                                             *)
(***************************************************************************)
UpperChar(c) ==
    CASE c = "a" -> "A" [] c = "b" -> "B" [] c = "c" -> "C" [] c = "d" -> "D"
      [] c = "e" -> "E" [] c = "f" -> "F" [] c = "g" -> "G" [] c = "h" -> "H"
      [] c = "i" -> "I" [] c = "j" -> "J" [] c = "k" -> "K" [] c = "l" -> "L"
      [] c = "m" -> "M" [] c = "n" -> "N" [] c = "o" -> "O" [] c = "p" -> "P"
      [] c = "q" -> "Q" [] c = "r" -> "R" [] c = "s" -> "S" [] c = "t" -> "T"
      [] c = "u" -> "U" [] c = "v" -> "V" [] c = "w" -> "W" [] c = "x" -> "X"
      [] c = "y" -> "Y" [] c = "z" -> "Z" [] OTHER -> c

\* UPPER(s) LIKE '%pat%'
UpperLikeContains(s, pat) ==
    \E i \in 0..(Len(s) - Len(pat)) : \A j \in 1..Len(pat) : UpperChar(s[i + j]) = pat[j]

INACCURATE == <<"I", "N", "A", "C", "C", "U", "R", "A", "T", "E">>

\* error_category = 'INACCURATE'
IsInaccurateExact(cat) == Coalesce(cat, <<>>) = INACCURATE

\* UPPER(COALESCE(error_category, '')) LIKE '%INACCURATE%'
\* (the characters are upper-cased as they are compared)
IsInaccurate(cat) == UpperLikeContains(Coalesce(cat, <<>>), INACCURATE)

\* the platform names the queries compare with
Doordash == <<"D", "o", "o", "r", "d", "a", "s", "h">>
UberEats == <<"U", "b", "e", "r", "E", "a", "t", "s">>
Grubhub == <<"G", "r", "u", "b", "h", "u", "b">>

\* TRIM(s): leading and trailing blanks removed
RECURSIVE LTrim(_)
LTrim(s) == IF s # <<>> /\ Head(s) = " " THEN LTrim(Tail(s)) ELSE s
RECURSIVE RTrim(_)
RTrim(s) == IF s # <<>> /\ s[Len(s)] = " " THEN RTrim(SubSeq(s, 1, Len(s) - 1)) ELSE s
Trim(v) == IF IsNull(v) THEN Null ELSE Val(RTrim(LTrim(v[1])))

\* CONCAT(a, b): NULL when an argument is NULL
Concat(a, b) == IF IsNull(a) \/ IsNull(b) THEN Null ELSE Val(a[1] \o b[1])

\* The order of ORDER BY on strings: by code point, NULL first.
Alphabet ==
    <<" ", "0", "1", "2", "3", "4", "5", "6", "7", "8", "9",
      "A", "B", "C", "D", "E", "F", "G", "H", "I", "J", "K", "L", "M",
      "N", "O", "P", "Q", "R", "S", "T", "U", "V", "W", "X", "Y", "Z", "_",
      "a", "b", "c", "d", "e", "f", "g", "h", "i", "j", "k", "l", "m",
      "n", "o", "p", "q", "r", "s", "t", "u", "v", "w", "x", "y", "z", "|">>
CharCode(c) == CHOOSE i \in 1..Len(Alphabet) : Alphabet[i] = c

RECURSIVE StrLeq(_, _)
StrLeq(a, b) ==
    IF a = <<>> THEN TRUE
    ELSE IF b = <<>> THEN FALSE
    ELSE IF Head(a) = Head(b) THEN StrLeq(Tail(a), Tail(b))
    ELSE CharCode(Head(a)) < CharCode(Head(b))

NullableStrLeq(a, b) == IsNull(a) \/ (~IsNull(b) /\ StrLeq(a[1], b[1]))

\* The members of S in ascending order.
OrderBy(S, Leq(_, _)) ==
    [i \in 1..Cardinality(S) |->
        CHOOSE x \in S : Cardinality({y \in S : Leq(y, x)}) = i]

(***************************************************************************)
(* Rounding                                                                *)
(***************************************************************************)
\* BigQuery ROUND: halfway cases away from zero (num >= 0, den > 0).
SqlRound(num, den) == (2 * num + den) \div (2 * den)

\* Python round(): halfway cases to the even neighbour (num >= 0, den > 0).
PyRound(num, den) ==
    LET q == num \div den
        r == num % den
    IN  IF 2 * r < den THEN q
        ELSE IF 2 * r > den THEN q + 1
        ELSE IF q % 2 = 0 THEN q ELSE q + 1

\* ROUND(SAFE_DIVIDE(won, NULLIF(settled, 0)) * 100, 2), in hundredths of a percent
SqlWinRate(won, settled) ==
    IF IsNull(won) \/ IsNull(settled) \/ settled = Val(0) THEN Null
    ELSE Val(SqlRound(10000 * won[1], settled[1]))

\* round(100.0 * won / settled, 2) if settled > 0 else 0  (NaN > 0 is False)
PyWinRate(won, settled) ==
    IF ~IsNull(settled) /\ settled[1] > 0
    THEN (IF IsNull(won) THEN Null ELSE Val(PyRound(10000 * won[1], settled[1])))
    ELSE Val(0)

(***************************************************************************)
(* Rows                                                                    *)
(***************************************************************************)
ACCEPTED == "ACCEPTED"
DENIED == "DENIED"
IN_PROGRESS == "IN_PROGRESS"
TO_BE_RAISED == "TO_BE_RAISED"
EXPIRED == "EXPIRED"
StatusList == <<ACCEPTED, DENIED, IN_PROGRESS, TO_BE_RAISED, EXPIRED>>

CsRow(slug, platform, date, status, category, won, refund, raised) ==
    [slug |-> slug, platform |-> platform, chargeback_date |-> date,
     external_status |-> status, error_category |-> category,
     enabled_won_disputes |-> won, enabled_customer_refunds |-> refund,
     loop_raised |-> raised]

SmRow(slug, chain, b_name, b_name_id) ==
    [slug |-> slug, chain |-> chain, b_name |-> b_name, b_name_id |-> b_name_id]

CoeRow(chain, b_name, platform, date, enabled, raised_ts) ==
    [chain |-> chain, b_name |-> b_name, platform |-> platform, order_date |-> date,
     is_loop_enabled |-> enabled, loop_raised_timestamp |-> raised_ts]

\* The bounded tables: every bag of at most n rows of the list d, each bag
\* once, as the sequence of its rows in the order of d.
RECURSIVE SortedIdx(_, _)
SortedIdx(d, n) ==
    IF n = 0 THEN {<<>>}
    ELSE LET prev == SortedIdx(d, n - 1)
             full == {s \in prev : Len(s) = n - 1}
         IN  prev \cup {Append(p[1], p[2]) :
                 p \in {q \in full \X (1..d) :
                           n = 1 \/ q[1][n - 1] <= q[2]}}

Tables(d, n) ==
    {<<>>} \cup {[i \in 1..Len(s) |-> d[s[i]]] : s \in SortedIdx(Len(d), n)}

\* The list of the rows F(a, b, c) for a, b, c drawn from three lists.
Product3(A, B, C, F(_, _, _)) ==
    [i \in 1..(Len(A) * Len(B) * Len(C)) |->
        F(A[((i - 1) % Len(A)) + 1],
          B[(((i - 1) \div Len(A)) % Len(B)) + 1],
          C[((i - 1) \div (Len(A) * Len(B))) + 1])]

(***************************************************************************)
(* Dates: the day of the year 2025 (1 = 1 January)                         *)
(***************************************************************************)
MonthLen == <<31, 28, 31, 30, 31, 30, 31, 31, 30, 31, 30, 31>>

RECURSIVE MonthFrom(_, _)
MonthFrom(d, m) == IF d <= MonthLen[m] THEN m ELSE MonthFrom(d - MonthLen[m], m + 1)
MonthOf(d) == MonthFrom(d, 1)

RECURSIVE DayFrom(_, _)
DayFrom(d, m) == IF d <= MonthLen[m] THEN d ELSE DayFrom(d - MonthLen[m], m + 1)
DayOfMonth(d) == DayFrom(d, 1)

\* DATE_TRUNC(d, MONTH); date(today.year, today.month, 1)
DateTruncMonth(d) == d - DayOfMonth(d) + 1

\* d BETWEEN lo AND hi
Between(d, lo, hi) == lo <= d /\ d <= hi

RECURSIVE SortedSeq(_)
SortedSeq(S) ==
    IF S = {} THEN <<>>
    ELSE LET x == CHOOSE y \in S : \A z \in S : y <= z
         IN  <<x>> \o SortedSeq(S \ {x})

Range(s) == {s[i] : i \in 1..Len(s)}

(***************************************************************************)
(* The win-rate columns                                                    *)
(***************************************************************************)
\* COALESCE(enabled_won_disputes, 0): the numerator, every category
won_amount(r) == Coalesce(r.enabled_won_disputes, 0)

\* the "wrong calculation (for comparison)": settled over every category
settled_all_categories(r) ==
    IF r.external_status \in {ACCEPTED, DENIED}
    THEN Coalesce(r.enabled_customer_refunds, 0)
    ELSE 0

\* settled over the category 'INACCURATE' alone
settled_exact_category(r) ==
    IF r.external_status \in {ACCEPTED, DENIED} /\ IsInaccurateExact(r.error_category)
    THEN Coalesce(r.enabled_customer_refunds, 0)
    ELSE 0

\* the denominator: ACCEPTED/DENIED and the category LIKE '%INACCURATE%'
settled_amount(r) ==
    IF r.external_status \in {ACCEPTED, DENIED} /\ IsInaccurate(r.error_category)
    THEN Coalesce(r.enabled_customer_refunds, 0)
    ELSE 0

\* pending: TO_BE_RAISED, or IN_PROGRESS with loop_raised = true, inaccurate only
pending_amount(r) ==
    IF IsInaccurate(r.error_category) /\ r.external_status = TO_BE_RAISED
    THEN Coalesce(r.enabled_customer_refunds, 0)
    ELSE IF IsInaccurate(r.error_category) /\ r.external_status = IN_PROGRESS
            /\ r.loop_raised = Val(TRUE)
    THEN Coalesce(r.enabled_customer_refunds, 0)
    ELSE 0

contested_amount(r) ==
    IF IsInaccurate(r.error_category) /\ r.external_status \in {ACCEPTED, TO_BE_RAISED}
    THEN Coalesce(r.enabled_customer_refunds, 0)
    ELSE IF IsInaccurate(r.error_category) /\ r.external_status \in {IN_PROGRESS, DENIED}
            /\ r.loop_raised = Val(TRUE)
    THEN Coalesce(r.enabled_customer_refunds, 0)
    ELSE 0

(***************************************************************************)
(* reconciliation_check.py: formula_query                                  *)
(***************************************************************************)
formula_query(t, last_30_start, last_30_end) ==
    LET rows == SelectSeq(t, LAMBDA r : Between(r.chargeback_date, last_30_start, last_30_end))
        won == SqlSum(Map(rows, won_amount))
        inacc == SqlSum(Map(rows, settled_amount))
        allcat == SqlSum(Map(rows, settled_all_categories))
    IN  [total_won_all_categories |-> won,
         settled_inaccurate_only |-> inacc,
         settled_all_categories |-> allcat,
         correct_win_rate |-> SqlWinRate(won, inacc),
         wrong_win_rate |-> SqlWinRate(won, allcat)]

(***************************************************************************)
(* recovery_dashboard_v2.py: the filters of the recovery queries           *)
(***************************************************************************)
AllPlatforms == {<<"All Platforms">>}
AllChains == {<<"All Chains">>}

\* "if date_range and len(date_range) == 2": cs.chargeback_date BETWEEN ...
DateFilter(r, date_range) ==
    Len(date_range) = 2 => Between(r.chargeback_date, date_range[1], date_range[2])

\* "if platform_filter and platform_filter != ['All Platforms']": cs.platform IN (...)
PlatformFilter(r, platform_filter) ==
    (platform_filter # {} /\ platform_filter # AllPlatforms)
        => (~IsNull(r.platform) /\ r.platform[1] \in platform_filter)

(***************************************************************************)
(* recovery_dashboard_v2.py: get_monthly_recovery                          *)
(***************************************************************************)
MonthlyRow(rows, month) ==
    LET g == SelectSeq(rows, LAMBDA r : DateTruncMonth(r.chargeback_date) = month)
        won == SumSeq(Map(g, won_amount))
        settled == SumSeq(Map(g, settled_amount))
    IN  [month |-> month,
         won |-> won,
         settled |-> settled,
         pending |-> SumSeq(Map(g, pending_amount)),
         total_contested |-> SumSeq(Map(g, contested_amount)),
         dispute_count |-> Len(SelectSeq(g, LAMBDA r : IsInaccurate(r.error_category))),
         lost |-> settled - won,
         win_rate |-> PyWinRate(Val(won), Val(settled))]

get_monthly_recovery(t, date_range, platform_filter, chain_filter) ==
    LET rows == SelectSeq(t, LAMBDA r : DateFilter(r, date_range)
                                        /\ PlatformFilter(r, platform_filter))
        months == SortedSeq({DateTruncMonth(rows[i].chargeback_date) : i \in 1..Len(rows)})
    IN  [i \in 1..Len(months) |-> MonthlyRow(rows, months[i])]

(***************************************************************************)
(* JOIN slug_am_mapping sm ON cs.slug = sm.slug                            *)
(***************************************************************************)
RECURSIVE Flatten(_)
Flatten(ss) ==
    IF ss = <<>> THEN <<>>
    ELSE IF Len(ss) = 1 THEN ss[1]
    ELSE LET half == Len(ss) \div 2
         IN  Flatten(SubSeq(ss, 1, half)) \o Flatten(SubSeq(ss, half + 1, Len(ss)))

JoinSm(t, m) ==
    Flatten([i \in 1..Len(t) |->
        Map(SelectSeq(m, LAMBDA x : x.slug = t[i].slug),
            LAMBDA x : t[i] @@ [chain |-> x.chain, b_name |-> x.b_name,
                                 b_name_id |-> x.b_name_id])])

(***************************************************************************)
(* recovery_dashboard_v2.py: get_overall_recovery                          *)
(***************************************************************************)
\* "if chain_filter and chain_filter != ['All Chains']": JOIN sm, sm.chain IN (...)
ChainFiltered(t, m, chain_filter) ==
    IF chain_filter # {} /\ chain_filter # AllChains
    THEN SelectSeq(JoinSm(t, m),
                   LAMBDA r : ~IsNull(r.chain) /\ r.chain[1] \in chain_filter)
    ELSE t

\* lost = settled - won, NaN when a sum is NULL
PyMinus(a, b) == IF IsNull(a) \/ IsNull(b) THEN Null ELSE Val(a[1] - b[1])

get_overall_recovery(t, m, date_range, platform_filter, chain_filter) ==
    LET base == SelectSeq(ChainFiltered(t, m, chain_filter),
                          LAMBDA r : DateFilter(r, date_range)
                                     /\ PlatformFilter(r, platform_filter))
        inacc == SelectSeq(base, LAMBDA r : IsInaccurate(r.error_category))
        total_won == SqlSum(Map(base, won_amount))
        total_settled == SqlSum(Map(inacc, settled_all_categories))
    IN  [total_contested |-> SqlSum(Map(inacc, contested_amount)),
         total_won |-> total_won,
         total_settled |-> total_settled,
         total_lost |-> PyMinus(total_settled, total_won),
         total_pending |-> SqlSum(Map(inacc, pending_amount)),
         total_disputes |-> Len(inacc),
         accepted_count |-> SqlSum(Map(inacc,
             LAMBDA r : IF r.external_status = ACCEPTED THEN 1 ELSE 0)),
         denied_count |-> SqlSum(Map(inacc,
             LAMBDA r : IF r.external_status = DENIED /\ r.loop_raised = Val(TRUE)
                        THEN 1 ELSE 0)),
         pending_count |-> SqlSum(Map(inacc,
             LAMBDA r : IF r.external_status = TO_BE_RAISED THEN 1
                        ELSE IF r.external_status = IN_PROGRESS
                                /\ r.loop_raised = Val(TRUE) THEN 1
                        ELSE 0)),
         win_rate |-> PyWinRate(total_won, total_settled)]

(***************************************************************************)
(* Aggregates shared by the scorecard queries                              *)
(***************************************************************************)
\* COUNT(DISTINCT x): the distinct non-NULL values
CountDistinct(vals) == Cardinality(Range(vals) \ {Null})

\* SUM(CASE WHEN p THEN 1 ELSE 0 END)
CountIf(rows, P(_)) == SqlSum(Map(rows, LAMBDA r : IF P(r) THEN 1 ELSE 0))

\* sm.chain IS NOT NULL AND sm.chain != ''
ChainPresent(r) == ~IsNull(r.chain) /\ r.chain[1] # <<>>

\* x IN ('a', 'b'): never true of NULL
InList(v, list) == ~IsNull(v) /\ v[1] \in list

\* pandas: df[column].sum(), 0 over no rows, NaN skipped
DfSum(df, Col(_)) == SumSeq(Map(df, LAMBDA g : Coalesce(Col(g), 0)))

(***************************************************************************)
(* weekly_scorecard.py: get_platform_breakdown                             *)
(***************************************************************************)
scorecard_dispute_status(r) ==
    IF r.external_status = ACCEPTED THEN "won"
    ELSE IF r.external_status = DENIED THEN "lost"
    ELSE IF r.external_status \in {IN_PROGRESS, TO_BE_RAISED} THEN "pending"
    ELSE "other"

\* filter_clause: each condition only when its list is non-empty
FilterClause(r, filter_chains, filter_platforms, filter_bnames) ==
    /\ filter_chains # {} => InList(r.chain, filter_chains)
    /\ filter_platforms # {} => InList(Trim(r.platform), filter_platforms)
    /\ filter_bnames # {} => InList(r.b_name, filter_bnames)

scorecard_monthly_data(t, m, start_date, end_date, filter_chains, filter_platforms, filter_bnames) ==
    SelectSeq(JoinSm(t, m),
              LAMBDA r : /\ Between(r.chargeback_date, start_date, end_date)
                         /\ ChainPresent(r)
                         /\ FilterClause(r, filter_chains, filter_platforms,
                                         filter_bnames))

\* is_loop_enabled = true AND loop_raised_timestamp IS NOT NULL
Qualifying(o) == o.is_loop_enabled = Val(TRUE) /\ ~IsNull(o.loop_raised_timestamp)

\* platform_locations: COUNT(DISTINCT CONCAT(chain, b_name)) GROUP BY platform
platform_locations(c, start_date, end_date) ==
    LET rows == SelectSeq(c, LAMBDA o : Between(o.order_date, start_date, end_date)
                                        /\ Qualifying(o))
    IN  {[platform |-> pf,
          unique_locations |->
              CountDistinct(Map(SelectSeq(rows, LAMBDA o : o.platform = pf),
                                LAMBDA o : Concat(o.chain, o.b_name)))] :
         pf \in {rows[i].platform : i \in 1..Len(rows)}}

\* LEFT JOIN platform_locations pl ON TRIM(md.platform) = pl.platform
JoinedLocations(pl, platform) ==
    LET hit == {g \in pl : ~IsNull(g.platform) /\ Trim(platform) = g.platform}
    IN  IF hit = {} THEN Null ELSE Val((CHOOSE g \in hit : TRUE).unique_locations)

PlatformRow(g, platform, pl) ==
    [platform |-> Trim(platform),
     unique_locations |-> Coalesce(JoinedLocations(pl, platform), 0),
     slug_count |-> CountDistinct(Map(g, LAMBDA r : Val(r.slug))),
     total_disputed |-> Len(g),
     disputes_won |-> CountIf(g, LAMBDA r : scorecard_dispute_status(r) = "won"),
     disputes_lost |-> CountIf(g, LAMBDA r : scorecard_dispute_status(r) = "lost"),
     disputes_pending |-> CountIf(g, LAMBDA r : scorecard_dispute_status(r) = "pending"),
     disputes_in_progress |-> CountIf(g, LAMBDA r : r.external_status = IN_PROGRESS),
     disputes_to_be_raised |-> CountIf(g, LAMBDA r : r.external_status = TO_BE_RAISED),
     disputes_expired |-> CountIf(g, LAMBDA r : r.external_status = EXPIRED),
     total_recovered |-> SqlSum(Map(g, won_amount)),
     total_settled |-> SqlSum(Map(g, settled_amount)),
     win_rate |-> SqlWinRate(SqlSum(Map(g, won_amount)), SqlSum(Map(g, settled_amount)))]

\* GROUP BY md.platform, pl.unique_locations ORDER BY md.platform
get_platform_breakdown(t, m, c, start_date, end_date, filter_chains, filter_platforms, filter_bnames) ==
    LET md == scorecard_monthly_data(t, m, start_date, end_date,
                                     filter_chains, filter_platforms, filter_bnames)
        pl == platform_locations(c, start_date, end_date)
        keys == OrderBy({md[i].platform : i \in 1..Len(md)}, NullableStrLeq)
    IN  [k \in 1..Len(keys) |->
            PlatformRow(SelectSeq(md, LAMBDA r : r.platform = keys[k]), keys[k], pl)]

(***************************************************************************)
(* Segmentation by location-count rank                                     *)
(***************************************************************************)
P0 == <<"P", "0">>
P1 == <<"P", "1">>
P2 == <<"P", "2">>
P3 == <<"P", "3">>
P4 == <<"P", "4">>

\* the cutoffs taken as rank < 15, < 40, < 70, < 132
SegmentOfShifted(rank_by_locations) ==
    IF rank_by_locations < 15 THEN P0
    ELSE IF rank_by_locations < 40 THEN P1
    ELSE IF rank_by_locations < 70 THEN P2
    ELSE IF rank_by_locations < 132 THEN P3
    ELSE P4

\* CASE WHEN rank_by_locations <= 15 THEN 'P0' ... ELSE 'P4' END
SegmentOf(rank_by_locations) ==
    IF rank_by_locations <= 15 THEN P0
    ELSE IF rank_by_locations <= 40 THEN P1
    ELSE IF rank_by_locations <= 70 THEN P2
    ELSE IF rank_by_locations <= 132 THEN P3
    ELSE P4

\* ORDER BY location_count ASC
RankingsAscending(location_count) ==
    LET chains == DOMAIN location_count
    IN  {f \in [chains -> 1..Cardinality(chains)] :
            /\ \A a, b \in chains : a # b => f[a] # f[b]
            /\ \A a, b \in chains :
                   location_count[a] < location_count[b] => f[a] < f[b]}

\* ROW_NUMBER() OVER (ORDER BY location_count DESC): every numbering 1..N of
\* the chains that puts a larger count first; the order of equal counts is
\* the engine's.
Rankings(location_count) ==
    LET chains == DOMAIN location_count
    IN  {f \in [chains -> 1..Cardinality(chains)] :
            /\ \A a, b \in chains : a # b => f[a] # f[b]
            /\ \A a, b \in chains :
                   location_count[a] > location_count[b] => f[a] < f[b]}

\* chain_segments over the disputes: COUNT(DISTINCT sm.slug) GROUP BY sm.chain
\* WHERE cs.chargeback_date >= DATE_SUB(CURRENT_DATE(), INTERVAL 30 DAY)
chain_segments(t, m, current_date) ==
    LET rows == SelectSeq(JoinSm(t, m),
                          LAMBDA r : r.chargeback_date >= current_date - 30
                                     /\ ChainPresent(r))
    IN  [ch \in {rows[i].chain[1] : i \in 1..Len(rows)} |->
            CountDistinct(Map(SelectSeq(rows, LAMBDA r : r.chain = Val(ch)),
                              LAMBDA r : Val(r.slug)))]

\* segmented_chains: chain -> segment
segmented_chains(rank) == [ch \in DOMAIN rank |-> SegmentOf(rank[ch])]

\* JOIN segmented_chains sc ON sm.chain = sc.chain
JoinSegments(rows, sc) ==
    Map(SelectSeq(rows, LAMBDA r : ~IsNull(r.chain) /\ r.chain[1] \in DOMAIN sc),
        LAMBDA r : r @@ [segment |-> sc[r.chain[1]]])

(***************************************************************************)
(* weekly_scorecard.py: get_chain_segmentation                             *)
(***************************************************************************)
\* the census: the orders of the trailing 30 days that are loop enabled and
\* raised, of a chain that is neither NULL nor ''
InCensus(o, current_date) ==
    /\ o.order_date >= current_date - 30
    /\ Qualifying(o)
    /\ ~IsNull(o.chain)
    /\ o.chain[1] # <<>>

\* COUNT(*) as location_count
chain_sizes_rows(c, current_date) ==
    LET rows == SelectSeq(c, LAMBDA o : InCensus(o, current_date))
    IN  [ch \in {rows[i].chain[1] : i \in 1..Len(rows)} |->
            Len(SelectSeq(rows, LAMBDA o : o.chain = Val(ch)))]

\* COUNT(DISTINCT CONCAT(chain, b_name)) as location_count ... GROUP BY chain
chain_sizes(c, current_date) ==
    LET rows == SelectSeq(c, LAMBDA o : InCensus(o, current_date))
    IN  [ch \in {rows[i].chain[1] : i \in 1..Len(rows)} |->
            CountDistinct(Map(SelectSeq(rows, LAMBDA o : o.chain = Val(ch)),
                              LAMBDA o : Concat(o.chain, o.b_name)))]

\* SUM(COALESCE(cs.enabled_customer_refunds, 0)) as total_volume GROUP BY sm.chain
chain_volumes(t, m, current_date) ==
    LET rows == SelectSeq(JoinSm(t, m),
                          LAMBDA r : r.chargeback_date >= current_date - 30
                                     /\ ChainPresent(r))
    IN  [ch \in {rows[i].chain[1] : i \in 1..Len(rows)} |->
            SumSeq(Map(SelectSeq(rows, LAMBDA r : r.chain = Val(ch)),
                       LAMBDA r : Coalesce(r.enabled_customer_refunds, 0)))]

\* ranked_chains and the final SELECT; rank: the ROW_NUMBER() numbering
get_chain_segmentation(c, t, m, current_date, rank) ==
    LET sizes == chain_sizes(c, current_date)
        cv == chain_volumes(t, m, current_date)
    IN  {[chain |-> ch,
          location_count |-> sizes[ch],
          total_volume |-> IF ch \in DOMAIN cv THEN cv[ch] ELSE 0,
          rank_by_locations |-> rank[ch],
          segment |-> SegmentOf(rank[ch])] : ch \in DOMAIN sizes}

(***************************************************************************)
(* get_chains_movement.py and weekly_scorecard.py: get_chains_movement     *)
(***************************************************************************)
\* the rows of a result as a bag: row -> number of copies (the ORDER BY of
\* the result is left out)
BagOf(rows) == [x \in Range(rows) |-> Cardinality({i \in DOMAIN rows : rows[i] = x})]

\* SELECT DISTINCT: the first copy of each row
RECURSIVE Distinct(_)
Distinct(rows) ==
    IF rows = <<>> THEN <<>>
    ELSE LET front == Distinct(SubSeq(rows, 1, Len(rows) - 1))
             last == rows[Len(rows)]
         IN  IF last \in Range(front) THEN front ELSE Append(front, last)

\* SELECT sm.chain, without DISTINCT
period_chains_all(t, m, period_start, period_end) ==
    Map(SelectSeq(JoinSm(t, m),
                  LAMBDA r : Between(r.chargeback_date, period_start, period_end)
                             /\ ChainPresent(r)),
        LAMBDA r : r.chain)

\* current_month_chains, previous_month_chains: SELECT DISTINCT sm.chain
period_chains(t, m, period_start, period_end) ==
    Distinct(Map(SelectSeq(JoinSm(t, m),
                           LAMBDA r : Between(r.chargeback_date, period_start, period_end)
                                      /\ ChainPresent(r)),
                 LAMBDA r : r.chain))

movement_type(c_chain, p_chain) ==
    IF ~IsNull(c_chain) /\ IsNull(p_chain) THEN "entered"
    ELSE IF IsNull(c_chain) /\ ~IsNull(p_chain) THEN "exited"
    ELSE "stayed"

\* current_month_chains c LEFT JOIN previous_month_chains p: the chains of
\* the previous period alone are lost
movement_left_join(current, previous) ==
    LET pair(c, p) == [chain |-> IF IsNull(c) THEN p ELSE c,
                       movement_type |-> movement_type(c, p)]
    IN  Flatten([i \in 1..Len(current) |->
            LET hits == SelectSeq(previous, LAMBDA p : p = current[i])
            IN  IF hits = <<>> THEN <<pair(current[i], Null)>>
                ELSE Map(hits, LAMBDA p : pair(current[i], p))])

\* current_month_chains c FULL OUTER JOIN previous_month_chains p ON c.chain = p.chain
movement(current, previous) ==
    LET pair(c, p) == [chain |-> IF IsNull(c) THEN p ELSE c,
                       movement_type |-> movement_type(c, p)]
        matched == Flatten([i \in 1..Len(current) |->
                       LET hits == SelectSeq(previous, LAMBDA p : p = current[i])
                       IN  IF hits = <<>> THEN <<pair(current[i], Null)>>
                           ELSE Map(hits, LAMBDA p : pair(current[i], p))])
        unmatched == SelectSeq(previous, LAMBDA p : \A i \in 1..Len(current) : current[i] # p)
    IN  matched \o Map(unmatched, LAMBDA p : pair(Null, p))

\* JOIN segmented_chains s ON m.chain = s.chain: the chains outside the
\* census are lost
MovementRowsInnerJoin(mv, location_count, rank) ==
    Map(SelectSeq(mv, LAMBDA x : /\ x.movement_type \in {"entered", "exited"}
                                 /\ x.chain[1] \in DOMAIN rank),
        LAMBDA x :
            [chain |-> x.chain,
             movement_type |-> x.movement_type,
             segment |-> segmented_chains(rank)[x.chain[1]],
             location_count |-> location_count[x.chain[1]]])

\* LEFT JOIN segmented_chains s ON m.chain = s.chain
\* WHERE m.movement_type IN ('entered', 'exited')
MovementRows(mv, location_count, rank) ==
    Map(SelectSeq(mv, LAMBDA x : x.movement_type \in {"entered", "exited"}),
        LAMBDA x :
            [chain |-> x.chain,
             movement_type |-> x.movement_type,
             segment |-> IF x.chain[1] \in DOMAIN rank
                         THEN segmented_chains(rank)[x.chain[1]] ELSE P4,
             location_count |-> IF x.chain[1] \in DOMAIN location_count
                                THEN location_count[x.chain[1]] ELSE 0])

\* get_chains_movement.py: chain_segments counts the slugs of the disputes
get_chains_movement(t, m, current_start, current_end, previous_start, previous_end, current_date, rank) ==
    BagOf(MovementRows(movement(period_chains(t, m, current_start, current_end),
                                period_chains(t, m, previous_start, previous_end)),
                       chain_segments(t, m, current_date), rank))

\* weekly_scorecard.py: chain_segments counts the locations of the orders
scorecard_get_chains_movement(t, m, c, current_start, current_end, previous_start, previous_end, current_date, rank) ==
    BagOf(MovementRows(movement(period_chains(t, m, current_start, current_end),
                                period_chains(t, m, previous_start, previous_end)),
                       chain_sizes(c, current_date), rank))

(***************************************************************************)
(* reconcile_all_numbers.py                                                *)
(***************************************************************************)
dispute_status(r) ==
    IF r.external_status = ACCEPTED THEN "won"
    ELSE IF r.external_status = DENIED THEN "lost"
    ELSE "pending"

monthly_data(t, m, current_month_start, current_month_end) ==
    SelectSeq(JoinSm(t, m),
              LAMBDA r : /\ Between(r.chargeback_date, current_month_start,
                                    current_month_end)
                         /\ ChainPresent(r))

\* COUNT(DISTINCT CASE WHEN TRIM(platform) = 'X' THEN slug END)
PlatformSlugs(rows, name) ==
    CountDistinct(Map(rows, LAMBDA r : IF Trim(r.platform) = Val(name)
                                       THEN Val(r.slug) ELSE Null))

overall_query(t, m, current_month_start, current_month_end) ==
    LET md == monthly_data(t, m, current_month_start, current_month_end)
        recovered == SqlSum(Map(md, won_amount))
        settled == SqlSum(Map(md, settled_all_categories))
    IN  [unique_chains |-> CountDistinct(Map(md, LAMBDA r : r.chain)),
         unique_locations |-> CountDistinct(Map(md, LAMBDA r : r.b_name_id)),
         unique_slugs |-> CountDistinct(Map(md, LAMBDA r : Val(r.slug))),
         dd_slugs |-> PlatformSlugs(md, Doordash),
         ue_slugs |-> PlatformSlugs(md, UberEats),
         gh_slugs |-> PlatformSlugs(md, Grubhub),
         total_disputes |-> Len(md),
         won_count |-> CountIf(md, LAMBDA r : dispute_status(r) = "won"),
         lost_count |-> CountIf(md, LAMBDA r : dispute_status(r) = "lost"),
         pending_count |-> CountIf(md, LAMBDA r : dispute_status(r) = "pending"),
         total_recovered |-> recovered,
         total_settled |-> settled,
         win_rate |-> SqlWinRate(recovered, settled)]

\* GROUP BY platform: the column of monthly_data, or the alias TRIM(platform)
PlatformKey(r, by_alias) == IF by_alias THEN Trim(r.platform) ELSE r.platform

\* the groups without the one of the NULL platform
PlatformKeysNonNull(md, by_alias) ==
    {PlatformKey(md[i], by_alias) : i \in 1..Len(md)} \ {Null}

PlatformKeys(md, by_alias) == {PlatformKey(md[i], by_alias) : i \in 1..Len(md)}

\* ORDER BY platform (the alias): groups with one trimmed name in any order
PlatformOrders(keys) ==
    {q \in [1..Cardinality(keys) -> keys] :
        /\ \A i, j \in DOMAIN q : i # j => q[i] # q[j]
        /\ \A i, j \in DOMAIN q : i < j => NullableStrLeq(Trim(q[i]), Trim(q[j]))}

PlatformTotalsRow(g, key) ==
    [platform |-> Trim(key),
     unique_locations |-> CountDistinct(Map(g, LAMBDA r : r.b_name_id)),
     slug_count |-> CountDistinct(Map(g, LAMBDA r : Val(r.slug))),
     total_disputed |-> Len(g),
     won |-> CountIf(g, LAMBDA r : dispute_status(r) = "won"),
     lost |-> CountIf(g, LAMBDA r : dispute_status(r) = "lost"),
     pending |-> CountIf(g, LAMBDA r : dispute_status(r) = "pending"),
     recovered |-> SqlSum(Map(g, won_amount)),
     settled |-> SqlSum(Map(g, settled_all_categories))]

platform_query(t, m, current_month_start, current_month_end, by_alias, order) ==
    LET md == monthly_data(t, m, current_month_start, current_month_end)
    IN  [k \in 1..Len(order) |->
            PlatformTotalsRow(
                SelectSeq(md, LAMBDA r : PlatformKey(r, by_alias) = order[k]),
                order[k])]

SegmentTotalsRow(g, segment) ==
    [segment |-> segment,
     chains |-> CountDistinct(Map(g, LAMBDA r : r.chain)),
     unique_locations |-> CountDistinct(Map(g, LAMBDA r : r.b_name_id)),
     dd_slugs |-> PlatformSlugs(g, Doordash),
     ue_slugs |-> PlatformSlugs(g, UberEats),
     gh_slugs |-> PlatformSlugs(g, Grubhub),
     disputes |-> Len(g),
     won |-> CountIf(g, LAMBDA r : dispute_status(r) = "won"),
     lost |-> CountIf(g, LAMBDA r : dispute_status(r) = "lost"),
     pending |-> CountIf(g, LAMBDA r : dispute_status(r) = "pending"),
     recovered |-> SqlSum(Map(g, won_amount)),
     settled |-> SqlSum(Map(g, settled_all_categories))]

\* rank: the ROW_NUMBER() numbering of chain_segments
segment_query(t, m, current_month_start, current_month_end, rank) ==
    LET md == JoinSegments(
                  SelectSeq(JoinSm(t, m),
                            LAMBDA r : Between(r.chargeback_date, current_month_start,
                                               current_month_end)),
                  segmented_chains(rank))
        segs == OrderBy({md[i].segment : i \in 1..Len(md)}, StrLeq)
    IN  [k \in 1..Len(segs) |->
            SegmentTotalsRow(SelectSeq(md, LAMBDA r : r.segment = segs[k]), segs[k])]

\* match = diff < tolerance
check_match_strict(overall_val, calculated_val, tolerance) ==
    LET diff == IF IsNull(overall_val) \/ IsNull(calculated_val) THEN Null
                ELSE Val(Abs(overall_val[1] - calculated_val[1]))
        match == ~IsNull(diff) /\ diff[1] < tolerance
    IN  [match |-> match,
         status |-> IF match THEN <<"MATCH">> ELSE <<"MISMATCH", diff>>]

\* diff = abs(overall_val - calculated_val); match = diff <= tolerance
\* (a comparison with NaN is False)
check_match(overall_val, calculated_val, tolerance) ==
    LET diff == IF IsNull(overall_val) \/ IsNull(calculated_val) THEN Null
                ELSE Val(Abs(overall_val[1] - calculated_val[1]))
        match == ~IsNull(diff) /\ diff[1] <= tolerance
    IN  [match |-> match,
         status |-> IF match THEN <<"MATCH">> ELSE <<"MISMATCH", diff>>]

\* the totals of the platform breakdown
reconcile_platform_totals(platform_df) ==
    [disputes |-> DfSum(platform_df, LAMBDA g : Val(g.total_disputed)),
     won |-> DfSum(platform_df, LAMBDA g : g.won),
     lost |-> DfSum(platform_df, LAMBDA g : g.lost),
     pending |-> DfSum(platform_df, LAMBDA g : g.pending),
     recovered |-> DfSum(platform_df, LAMBDA g : g.recovered),
     settled |-> DfSum(platform_df, LAMBDA g : g.settled)]

\* the totals of the segment breakdown
reconcile_segment_totals(segment_df) ==
    [chains |-> DfSum(segment_df, LAMBDA g : Val(g.chains)),
     unique_locations |-> DfSum(segment_df, LAMBDA g : Val(g.unique_locations)),
     dd_slugs |-> DfSum(segment_df, LAMBDA g : Val(g.dd_slugs)),
     ue_slugs |-> DfSum(segment_df, LAMBDA g : Val(g.ue_slugs)),
     gh_slugs |-> DfSum(segment_df, LAMBDA g : Val(g.gh_slugs)),
     disputes |-> DfSum(segment_df, LAMBDA g : Val(g.disputes)),
     won |-> DfSum(segment_df, LAMBDA g : g.won),
     lost |-> DfSum(segment_df, LAMBDA g : g.lost),
     pending |-> DfSum(segment_df, LAMBDA g : g.pending),
     recovered |-> DfSum(segment_df, LAMBDA g : g.recovered),
     settled |-> DfSum(segment_df, LAMBDA g : g.settled)]

\* the checks of the overall figures against the platform totals
reconcile_platform_checks(overall, platform_totals) ==
    <<check_match(Val(overall.total_disputes), Val(platform_totals.disputes), 1),
      check_match(overall.won_count, Val(platform_totals.won), 1),
      check_match(overall.lost_count, Val(platform_totals.lost), 1),
      check_match(overall.pending_count, Val(platform_totals.pending), 1),
      check_match(overall.total_recovered, Val(platform_totals.recovered), 1),
      check_match(overall.total_settled, Val(platform_totals.settled), 1)>>

\* the checks of the overall figures against the segment totals
reconcile_segment_checks(overall, segment_totals) ==
    <<check_match(Val(overall.total_disputes), Val(segment_totals.disputes), 1),
      check_match(overall.won_count, Val(segment_totals.won), 1),
      check_match(overall.lost_count, Val(segment_totals.lost), 1),
      check_match(overall.pending_count, Val(segment_totals.pending), 1),
      check_match(overall.total_recovered, Val(segment_totals.recovered), 1),
      check_match(overall.total_settled, Val(segment_totals.settled), 1),
      check_match(Val(overall.dd_slugs), Val(segment_totals.dd_slugs), 1),
      check_match(Val(overall.ue_slugs), Val(segment_totals.ue_slugs), 1),
      check_match(Val(overall.gh_slugs), Val(segment_totals.gh_slugs), 1)>>

\* the report of the three queries, their totals and their checks
reconcile_report(overall, platform_df, platform_totals, segment_df, segment_totals, platform_checks, segment_checks) ==
    [overall |-> overall,
     platform_df |-> platform_df,
     platform_totals |-> platform_totals,
     segment_df |-> segment_df,
     segment_totals |-> segment_totals,
     platform_checks |-> platform_checks,
     segment_checks |-> segment_checks,
     all_match |-> /\ \A i \in DOMAIN platform_checks : platform_checks[i].match
                   /\ \A i \in DOMAIN segment_checks : segment_checks[i].match]

\* the checks, made of the totals
reconcile_totals(overall, platform_df, platform_totals, segment_df, segment_totals) ==
    reconcile_report(overall, platform_df, platform_totals, segment_df, segment_totals,
                     reconcile_platform_checks(overall, platform_totals),
                     reconcile_segment_checks(overall, segment_totals))

\* the totals, made of the rows of the queries
reconcile_queries(overall, platform_df, segment_df) ==
    reconcile_totals(overall, platform_df, reconcile_platform_totals(platform_df),
                     segment_df, reconcile_segment_totals(segment_df))

\* the script from the date setup to all_match; tolerance=1 is the default
reconcile_all_numbers(t, m, day, by_alias, order, rank) ==
    reconcile_queries(overall_query(t, m, DateTruncMonth(day), day),
                      platform_query(t, m, DateTruncMonth(day), day, by_alias, order),
                      segment_query(t, m, DateTruncMonth(day), day, rank))

(***************************************************************************)
(* reconciliation_check.py: 1. overall totals vs sum of segments           *)
(***************************************************************************)
check_overall_query(t, m, last_30_start, last_30_end) ==
    LET md == monthly_data(t, m, last_30_start, last_30_end)
        won == SqlSum(Map(md, won_amount))
        settled == SqlSum(Map(md, settled_amount))
    IN  [total_disputes |-> Len(md),
         total_won |-> won,
         total_settled |-> settled,
         win_rate |-> SqlWinRate(won, settled)]

CheckSegmentRow(g, segment) ==
    [segment |-> segment,
     disputes |-> Len(g),
     won |-> SqlSum(Map(g, won_amount)),
     settled |-> SqlSum(Map(g, settled_amount)),
     win_rate |-> SqlWinRate(SqlSum(Map(g, won_amount)), SqlSum(Map(g, settled_amount)))]

check_segment_query(t, m, last_30_start, last_30_end, rank) ==
    LET md == JoinSegments(
                  SelectSeq(JoinSm(t, m),
                            LAMBDA r : Between(r.chargeback_date, last_30_start,
                                               last_30_end)),
                  segmented_chains(rank))
        segs == OrderBy({md[i].segment : i \in 1..Len(md)}, StrLeq)
    IN  [k \in 1..Len(segs) |->
            CheckSegmentRow(SelectSeq(md, LAMBDA r : r.segment = segs[k]), segs[k])]

\* abs(dispute_diff) < 10 and abs(won_diff) < 100 and abs(settled_diff) < 100
WithinTolerance(dispute_diff, won_diff, settled_diff) ==
    /\ ~IsNull(won_diff) /\ ~IsNull(settled_diff)
    /\ Abs(dispute_diff) < 10
    /\ Abs(won_diff[1]) < 100
    /\ Abs(settled_diff[1]) < 100

reconciliation_check(t, m, day, rank) ==
    LET last_30_start == day - 30
        last_30_end == day
        overall_df == check_overall_query(t, m, last_30_start, last_30_end)
        segment_df == check_segment_query(t, m, last_30_start, last_30_end, rank)
        segment_sum_disputes == DfSum(segment_df, LAMBDA g : Val(g.disputes))
        segment_sum_won == DfSum(segment_df, LAMBDA g : g.won)
        segment_sum_settled == DfSum(segment_df, LAMBDA g : g.settled)
        dispute_diff == overall_df.total_disputes - segment_sum_disputes
        won_diff == PyMinus(overall_df.total_won, Val(segment_sum_won))
        settled_diff == PyMinus(overall_df.total_settled, Val(segment_sum_settled))
    IN  [overall_df |-> overall_df,
         segment_df |-> segment_df,
         segment_sum_disputes |-> segment_sum_disputes,
         segment_sum_won |-> segment_sum_won,
         segment_sum_settled |-> segment_sum_settled,
         dispute_diff |-> dispute_diff,
         won_diff |-> won_diff,
         settled_diff |-> settled_diff,
         passed |-> WithinTolerance(dispute_diff, won_diff, settled_diff)]

(***************************************************************************)
(* Spec: the recovery figures over a bounded chargeback_split_summary      *)
(***************************************************************************)
MaxRows == 2

Other == <<"O", "T", "H", "E", "R">>
InaccurateOrder == <<"I", "n", "a", "c", "c", "u", "r", "a", "t", "e", " ",
                     "o", "r", "d", "e", "r">>
Categories == <<Null, Val(Other), Val(INACCURATE), Val(InaccurateOrder)>>

ChainA == <<"A">>
ChainB == <<"B">>

\* 14 February; 5 January lies before the trailing 30 days, 9 February in them
RecoveryToday == 45
\* a row's date, enabled_won_disputes and enabled_customer_refunds
DatedAmounts == << <<5, Val(100), Null>>, <<40, Val(50), Val(200)>>, <<40, Val(0), Val(100)>> >>

RecoveryRows ==
    Product3(StatusList, Categories, DatedAmounts,
             LAMBDA st, cat, p :
                 CsRow("s1", Val(Doordash), p[1], st, cat, p[2], p[3], Val(TRUE)))

\* won=100 (OTHER), won=50 (INACCURATE, ACCEPTED, refund=200),
\* won=0 (INACCURATE, DENIED, refund=100)
ScenarioRecords ==
    << CsRow("s1", Val(Doordash), 40, ACCEPTED, Val(Other), Val(100), Val(200), Val(TRUE)),
       CsRow("s1", Val(Doordash), 40, ACCEPTED, Val(INACCURATE), Val(50), Val(200), Val(TRUE)),
       CsRow("s1", Val(Doordash), 40, DENIED, Val(INACCURATE), Val(0), Val(100), Val(TRUE)) >>

RecoveryMapping == << SmRow("s1", Val(ChainA), Val(<<"x">>), Val(1)) >>

Init ==
    /\ cs \in Tables(RecoveryRows, MaxRows) \cup {ScenarioRecords}
    /\ sm = RecoveryMapping
    /\ coe = <<>>
    /\ today = RecoveryToday
    /\ currentDate = today
    /\ input = Null
    /\ op = "none"
    /\ result = Null

RunFormulaQuery ==
    /\ op = "none"
    /\ op' = "formula_query"
    /\ result' = formula_query(cs, today - 30, today)
    /\ UNCHANGED data

RunMonthlyRecovery ==
    /\ op = "none"
    /\ \E date_range \in {<<>>, <<today - 30, today>>} :
          /\ op' = "get_monthly_recovery"
          /\ result' = [date_range |-> date_range,
                        rows |-> get_monthly_recovery(cs, date_range, AllPlatforms, AllChains)]
    /\ UNCHANGED data

RunOverallRecovery ==
    /\ op = "none"
    /\ \E chain_filter \in {AllChains, {ChainA}} :
          /\ op' = "get_overall_recovery"
          /\ result' = get_overall_recovery(cs, sm, <<today - 30, today>>,
                                            AllPlatforms, chain_filter)
    /\ UNCHANGED data

Next == RunFormulaQuery \/ RunMonthlyRecovery \/ RunOverallRecovery

Spec == Init /\ [][Next]_vars

(***************************************************************************)
(* SpecPlatform: the platform breakdowns and the reconciliation scripts    *)
(* over disputes that differ in platform, status, chain and date           *)
(***************************************************************************)
DoordashPadded == Doordash \o <<" ">>
Platforms == <<Val(Doordash), Val(DoordashPadded), Val(UberEats), Null>>
ScorecardStatuses == <<ACCEPTED, DENIED, EXPIRED>>

\* 14 February: the month to date is 1..14 February
PlatformToday == 45

\* a row's slug, date, error_category, enabled_won_disputes, enabled_customer_refunds:
\* s3 has an empty chain, 20 January is before the month to date
PlatformVariants ==
    << <<"s1", 40, Val(INACCURATE), Val(75), Val(100)>>,
       <<"s2", 40, Val(Other), Val(50), Val(200)>>,
       <<"s3", 40, Val(INACCURATE), Val(10), Val(10)>>,
       <<"s1", 20, Val(INACCURATE), Val(20), Val(30)>> >>

PlatformRows ==
    Product3(Platforms, ScorecardStatuses, PlatformVariants,
             LAMBDA pf, st, v : CsRow(v[1], pf, v[2], st, v[3], v[4], v[5], Val(TRUE)))

PlatformMapping ==
    << SmRow("s1", Val(ChainA), Val(<<"x">>), Val(1)),
       SmRow("s2", Val(ChainB), Val(<<"y">>), Val(2)),
       SmRow("s3", Val(<<>>), Val(<<"z">>), Val(3)) >>

PlatformOrders_coe ==
    << CoeRow(Val(ChainA), Val(<<"x">>), Val(Doordash), 40, Val(TRUE), Val(40)),
       CoeRow(Val(ChainB), Val(<<"y">>), Val(Doordash), 40, Val(TRUE), Val(40)),
       CoeRow(Val(ChainA), Val(<<"x">>), Val(UberEats), 40, Val(TRUE), Null) >>

InitPlatform ==
    /\ cs \in Tables(PlatformRows, MaxRows)
    /\ sm = PlatformMapping
    /\ coe = PlatformOrders_coe
    /\ today = PlatformToday
    /\ currentDate = today
    /\ input = Null
    /\ op = "none"
    /\ result = Null

RunPlatformBreakdown ==
    /\ op = "none"
    /\ \E filter_platforms \in {{}, {Doordash}} :
          /\ op' = "get_platform_breakdown"
          /\ result' = get_platform_breakdown(cs, sm, coe, today - 30, today,
                                              {}, filter_platforms, {})
    /\ UNCHANGED data

\* BigQuery documents GROUP BY platform, a name that is both a column of
\* monthly_data and the alias of TRIM(platform), as ambiguous: the query is
\* rejected, or groups by one of the two.
RunReconcileAllNumbers ==
    /\ op = "none"
    /\ \/ /\ op' = "reconcile_all_numbers failed"
          /\ result' = <<"platform_query">>
       \/ \E by_alias \in BOOLEAN :
          \E order \in PlatformOrders(PlatformKeys(
                           monthly_data(cs, sm, DateTruncMonth(today), today), by_alias)) :
          \E rank \in Rankings(chain_segments(cs, sm, currentDate)) :
             /\ op' = "reconcile_all_numbers"
             /\ result' = reconcile_all_numbers(cs, sm, today, by_alias, order, rank)
    /\ UNCHANGED data

RunReconciliationCheck ==
    /\ op = "none"
    /\ \E rank \in Rankings(chain_segments(cs, sm, currentDate)) :
          /\ op' = "reconciliation_check"
          /\ result' = reconciliation_check(cs, sm, today, rank)
    /\ UNCHANGED data

NextPlatform == RunPlatformBreakdown \/ RunReconcileAllNumbers \/ RunReconciliationCheck

SpecPlatform == InitPlatform /\ [][NextPlatform]_vars

(***************************************************************************)
(* SpecSegmentation: the segmentation of a bounded census, and of a rank   *)
(***************************************************************************)
MaxCensus == 3
MaxRank == 140

ChainC == <<"C">>
ChainD == <<"D">>
ChainE == <<"E">>

\* 14 February: the census starts on 15 January
SegmentationToday == 45

\* orders of the census, then one before the 30 days, one not loop enabled,
\* one not raised, and one each without a chain name
CensusRows ==
    << CoeRow(Val(ChainA), Val(<<"x">>), Val(Doordash), 40, Val(TRUE), Val(40)),
       CoeRow(Val(ChainA), Val(<<"y">>), Val(Doordash), 40, Val(TRUE), Val(40)),
       CoeRow(Val(ChainA), Null, Val(Doordash), 40, Val(TRUE), Val(40)),
       CoeRow(Val(ChainB), Val(<<"x">>), Val(Doordash), 40, Val(TRUE), Val(40)),
       CoeRow(Val(ChainB), Val(<<"y">>), Val(UberEats), 15, Val(TRUE), Val(40)),
       CoeRow(Val(ChainC), Val(<<"x">>), Val(Doordash), 40, Val(TRUE), Val(40)),
       CoeRow(Val(ChainC), Val(<<"y">>), Val(Doordash), 14, Val(TRUE), Val(40)),
       CoeRow(Val(ChainD), Val(<<"x">>), Val(Doordash), 40, Val(FALSE), Val(40)),
       CoeRow(Val(ChainD), Val(<<"y">>), Val(Doordash), 40, Null, Val(40)),
       CoeRow(Val(ChainE), Val(<<"x">>), Val(Doordash), 40, Val(TRUE), Null),
       CoeRow(Null, Val(<<"x">>), Val(Doordash), 40, Val(TRUE), Val(40)),
       CoeRow(Val(<<>>), Val(<<"x">>), Val(Doordash), 40, Val(TRUE), Val(40)) >>

Digit == <<"0", "1", "2", "3", "4", "5", "6", "7", "8", "9">>
LocationName(k) == <<"L", Digit[(k \div 10) + 1], Digit[(k % 10) + 1]>>

\* one order at each of the first n locations of a chain
ChainOrders(chain, n) ==
    [k \in 1..n |-> CoeRow(Val(chain), Val(LocationName(k)), Val(Doordash), 40,
                           Val(TRUE), Val(40))]

\* five chains with 50, 40, 40, 10 and 1 locations; the last has two orders
ScenarioCensus ==
    ChainOrders(ChainA, 50) \o ChainOrders(ChainB, 40) \o ChainOrders(ChainC, 40)
        \o ChainOrders(ChainD, 10) \o ChainOrders(ChainE, 1) \o ChainOrders(ChainE, 1)

SegmentationDisputes ==
    << CsRow("s1", Val(Doordash), 40, ACCEPTED, Val(INACCURATE), Val(75), Val(100), Val(TRUE)),
       CsRow("s2", Val(Doordash), 10, DENIED, Val(Other), Val(0), Val(200), Val(TRUE)) >>

InitSegmentation ==
    /\ \/ /\ coe \in Tables(CensusRows, MaxCensus) \cup {ScenarioCensus}
          /\ input = Null
       \/ /\ coe = <<>>
          /\ input \in {Val(r) : r \in 1..MaxRank}
    /\ cs = SegmentationDisputes
    /\ sm = PlatformMapping
    /\ today = SegmentationToday
    /\ currentDate = today
    /\ op = "none"
    /\ result = Null

RunSegmentOf ==
    /\ op = "none"
    /\ input # Null
    /\ op' = "SegmentOf"
    /\ result' = SegmentOf(input[1])
    /\ UNCHANGED data

RunChainSegmentation ==
    /\ op = "none"
    /\ input = Null
    /\ \E rank \in Rankings(chain_sizes(coe, currentDate)) :
          /\ op' = "get_chain_segmentation"
          /\ result' = get_chain_segmentation(coe, cs, sm, currentDate, rank)
    /\ UNCHANGED data

NextSegmentation == RunSegmentOf \/ RunChainSegmentation

SpecSegmentation == InitSegmentation /\ [][NextSegmentation]_vars

(***************************************************************************)
(* SpecSegments: the same scripts over disputes that differ in chain and   *)
(* date, the warehouse's CURRENT_DATE() (UTC) a day behind, equal to or a  *)
(* day ahead of the date.today() of the process (local time)               *)
(***************************************************************************)
\* 31 January: the month to date and the trailing 30 days both start on 1 January
SegmentsToday == 31

SegmentStatuses == <<ACCEPTED, EXPIRED>>
SegmentSlugs == <<"s1", "s2", "s3">>

SegmentRows ==
    Product3(SegmentSlugs, SegmentStatuses,
             <<SegmentsToday - 30, SegmentsToday - 29, SegmentsToday - 11>>,
             LAMBDA slug, st, d :
                 CsRow(slug, Val(Doordash), d, st, Val(INACCURATE), Val(75), Val(100),
                       Val(TRUE)))

InitSegments ==
    /\ cs \in Tables(SegmentRows, MaxRows)
    /\ sm = PlatformMapping
    /\ coe = PlatformOrders_coe
    /\ today = SegmentsToday
    /\ currentDate \in {today - 1, today, today + 1}
    /\ input = Null
    /\ op = "none"
    /\ result = Null

SpecSegments == InitSegments /\ [][NextPlatform]_vars

(***************************************************************************)
(* SpecCheck: the two tolerance checks applied to bounded totals           *)
(***************************************************************************)
MaxTotal == 12

\* an overall total and the sum of a breakdown
CheckTotals == (0..MaxTotal) \cup {998, 1000}
\* the won and settled differences of reconciliation_check.py
AmountDiffs == {Val(-100), Val(-99), Val(0), Val(99), Val(100)}

InitCheck ==
    /\ input \in [overall_val : CheckTotals, calculated_val : CheckTotals,
                  amount_diff : AmountDiffs]
    /\ cs = <<>>
    /\ sm = <<>>
    /\ coe = <<>>
    /\ today = RecoveryToday
    /\ currentDate = today
    /\ op = "none"
    /\ result = Null

RunCheckMatch ==
    /\ op = "none"
    /\ \E tolerance \in {1, 2} :
          /\ op' = "check_match"
          /\ result' = [tolerance |-> tolerance,
                        check |-> check_match(Val(input.overall_val),
                                              Val(input.calculated_val), tolerance)]
    /\ UNCHANGED data

RunWithinTolerance ==
    /\ op = "none"
    /\ \E settled_diff \in {Val(0), input.amount_diff} :
          /\ op' = "within_tolerance"
          /\ result' = [dispute_diff |-> input.overall_val - input.calculated_val,
                        won_diff |-> input.amount_diff,
                        settled_diff |-> settled_diff,
                        passed |-> WithinTolerance(
                                       input.overall_val - input.calculated_val,
                                       input.amount_diff, settled_diff)]
    /\ UNCHANGED data

NextCheck == RunCheckMatch \/ RunWithinTolerance

SpecCheck == InitCheck /\ [][NextCheck]_vars

(***************************************************************************)
(* SpecMovement: the chains that entered or exited between two periods     *)
(***************************************************************************)
\* 14 February: the current month is 1..14 February, the trailing 30 days
\* start on 15 January, the previous month is January
MovementToday == 45

MovementMapping ==
    << SmRow("s1", Val(ChainA), Val(<<"x">>), Val(1)),
       SmRow("s2", Val(ChainB), Val(<<"y">>), Val(2)),
       SmRow("s3", Val(<<>>), Val(<<"z">>), Val(3)),
       SmRow("s4", Val(ChainA), Val(<<"y">>), Val(4)),
       SmRow("s5", Val(ChainC), Val(<<"x">>), Val(5)),
       SmRow("s6", Val(ChainD), Val(<<"x">>), Val(6)) >>

Dispute(slug, d) ==
    CsRow(slug, Val(Doordash), d, ACCEPTED, Val(INACCURATE), Val(75), Val(100), Val(TRUE))

\* disputes of February, of 20 and of 5 January, and of a later day
MovementDisputes ==
    Product3(<<"s1", "s2", "s3", "s4">>, <<40, 20, 5, 50>>, <<ACCEPTED>>,
             LAMBDA slug, d, st : Dispute(slug, d))

\* the current month has disputes of the chains A, B, C, the previous month
\* of B, C, D
ScenarioMovement ==
    << Dispute("s1", 40), Dispute("s2", 40), Dispute("s5", 40),
       Dispute("s2", 5), Dispute("s5", 5), Dispute("s6", 5) >>

InitMovement ==
    /\ cs \in Tables(MovementDisputes, MaxRows) \cup {ScenarioMovement}
    /\ sm = MovementMapping
    /\ coe \in {PlatformOrders_coe, <<>>}
    /\ today = MovementToday
    /\ currentDate = today
    /\ input = Null
    /\ op = "none"
    /\ result = Null

\* the last day of the month before today's, and its first
PrevMonthEnd(day) == DateTruncMonth(day) - 1
PrevMonthStart(day) == DateTruncMonth(PrevMonthEnd(day))

\* get_chains_movement.py, __main__: the month to date against the month before
RunChainsMovement ==
    /\ op = "none"
    /\ \E rank \in Rankings(chain_segments(cs, sm, currentDate)) :
          /\ op' = "get_chains_movement"
          /\ result' = [current |-> <<DateTruncMonth(today), today>>,
                        previous |-> <<PrevMonthStart(today), PrevMonthEnd(today)>>,
                        df |-> get_chains_movement(cs, sm, DateTruncMonth(today), today,
                                   PrevMonthStart(today), PrevMonthEnd(today),
                                   currentDate, rank)]
    /\ UNCHANGED data

\* weekly_scorecard.py: the last 30 days against the month before
RunScorecardChainsMovement ==
    /\ op = "none"
    /\ \E rank \in Rankings(chain_sizes(coe, currentDate)) :
          /\ op' = "scorecard_get_chains_movement"
          /\ result' = [current |-> <<today - 30, today>>,
                        previous |-> <<PrevMonthStart(today), PrevMonthEnd(today)>>,
                        df |-> scorecard_get_chains_movement(cs, sm, coe, today - 30, today,
                                   PrevMonthStart(today), PrevMonthEnd(today),
                                   currentDate, rank)]
    /\ UNCHANGED data

\* get_chains_movement.py called a second time with the two periods
\* exchanged; each call numbers the tied chains on its own
RunChainsMovementSwapped ==
    /\ op = "none"
    /\ \E rank, rank_swapped \in Rankings(chain_segments(cs, sm, currentDate)) :
          /\ op' = "get_chains_movement swapped"
          /\ result' = [current |-> <<DateTruncMonth(today), today>>,
                        previous |-> <<PrevMonthStart(today), PrevMonthEnd(today)>>,
                        df |-> get_chains_movement(cs, sm, DateTruncMonth(today), today,
                                   PrevMonthStart(today), PrevMonthEnd(today),
                                   currentDate, rank),
                        swapped |-> get_chains_movement(cs, sm,
                                   PrevMonthStart(today), PrevMonthEnd(today),
                                   DateTruncMonth(today), today,
                                   currentDate, rank_swapped)]
    /\ UNCHANGED data

NextMovement ==
    \/ RunChainsMovement
    \/ RunScorecardChainsMovement
    \/ RunChainsMovementSwapped

SpecMovement == InitMovement /\ [][NextMovement]_vars

(***************************************************************************)
(* recovery_dashboard_v2.py: get_chains_requiring_attention                *)
(***************************************************************************)
\* DATE_TRUNC(d, MONTH) over two years: the days 366.. are the days of 2026
DateTruncMonthOfYears(d) ==
    IF d > 365 THEN 365 + DateTruncMonth(d - 365) ELSE DateTruncMonth(d)

\* A FLOAT64 quotient is kept as the exact fraction <<numerator, denominator>>
\* in lowest terms, the denominator positive.
RECURSIVE Gcd(_, _)
Gcd(a, b) == IF b = 0 THEN a ELSE Gcd(b, a % b)

Rat(n, d) == LET g == Gcd(Abs(n), d) IN <<n \div g, d \div g>>
RatAdd(a, b) == Rat(a[1] * b[2] + b[1] * a[2], a[2] * b[2])
RatSub(a, b) == Rat(a[1] * b[2] - b[1] * a[2], a[2] * b[2])
RatLess(a, b) == a[1] * b[2] < b[1] * a[2]
RatLeq(a, b) == a[1] * b[2] <= b[1] * a[2]

RECURSIVE RatSumSeq(_)
RatSumSeq(s) == IF s = <<>> THEN <<0, 1>> ELSE RatAdd(Head(s), RatSumSeq(Tail(s)))

\* AVG over the non-NULL values s: NULL when there is none
RatAvg(s) ==
    IF s = <<>> THEN Null
    ELSE LET total == RatSumSeq(s) IN Val(Rat(total[1], total[2] * Len(s)))

\* ROUND(x, 2) of a fraction x >= 0, in hundredths
RatRound2(x) == SqlRound(100 * x[1], x[2])

\* "if platform_filter and 'All Platforms' not in platform_filter", else
\* cs.platform IN ('Doordash', 'UberEats')
attention_platform_clause(r, platform_filter) ==
    IF platform_filter # {} /\ AllPlatforms \cap platform_filter = {}
    THEN InList(r.platform, platform_filter)
    ELSE InList(r.platform, {Doordash, UberEats})

\* "if chain_filter and 'All Chains' not in chain_filter": sm.chain IN (...)
attention_chain_clause(r, chain_filter) ==
    (chain_filter # {} /\ AllChains \cap chain_filter = {})
        => InList(r.chain, chain_filter)

\* the rows monthly_performance aggregates
attention_rows(t, m, start_12m, current_date, platform_filter, chain_filter) ==
    SelectSeq(JoinSm(t, m),
              LAMBDA r : /\ r.chargeback_date >= start_12m
                         /\ r.chargeback_date <= current_date
                         /\ attention_platform_clause(r, platform_filter)
                         /\ attention_chain_clause(r, chain_filter)
                         /\ IsInaccurate(r.error_category))

\* GROUP BY sm.chain, cs.platform, month HAVING settled > 0
monthly_performance(rows) ==
    LET keys == {<<rows[i].chain, rows[i].platform,
                   DateTruncMonthOfYears(rows[i].chargeback_date)>> : i \in 1..Len(rows)}
        group(k) == SelectSeq(rows,
                        LAMBDA r : /\ r.chain = k[1]
                                   /\ r.platform = k[2]
                                   /\ DateTruncMonthOfYears(r.chargeback_date) = k[3])
        all == {[chain |-> k[1], platform |-> k[2], month |-> k[3],
                 won |-> SumSeq(Map(group(k), won_amount)),
                 settled |-> SumSeq(Map(group(k), settled_amount))] : k \in keys}
    IN  {g \in all : g.settled > 0}

\* the months of a group, oldest first
RECURSIVE MonthsInOrder(_)
MonthsInOrder(S) ==
    IF S = {} THEN <<>>
    ELSE LET g == CHOOSE x \in S : \A y \in S : x.month <= y.month
         IN  <<g>> \o MonthsInOrder(S \ {g})

\* AVG(CASE WHEN month >= start THEN 100.0 * won / NULLIF(settled, 0) ELSE NULL END)
avg_win_rate_since(months, start) ==
    RatAvg(Map(SelectSeq(months, LAMBDA g : g.month >= start),
               LAMBDA g : Rat(100 * g.won, g.settled)))

\* chain_metrics: GROUP BY chain, platform HAVING months_of_data >= 3
chain_metrics(mp, start_12m, start_3m) ==
    LET all == {LET months == MonthsInOrder({g \in mp : g.chain = k[1] /\ g.platform = k[2]})
                IN  [chain |-> k[1], platform |-> k[2],
                     avg_12m_win_rate |-> avg_win_rate_since(months, start_12m),
                     avg_3m_win_rate |-> avg_win_rate_since(months, start_3m),
                     months_of_data |-> Len(months),
                     total_settled_12m |-> SumSeq(Map(months, LAMBDA g : g.settled))]
                : k \in {<<g.chain, g.platform>> : g \in mp}}
    IN  {c \in all : c.months_of_data >= 3}

\* a NULL average compares to NULL and the row is left out
IsPositive(avg) == ~IsNull(avg) /\ avg[1][1] > 0

\* 100.0 * (avg_12m_win_rate - avg_3m_win_rate) / NULLIF(avg_12m_win_rate, 0)
decline_percentage(c) ==
    LET d == RatSub(c.avg_12m_win_rate[1], c.avg_3m_win_rate[1])
        long == c.avg_12m_win_rate[1]
    IN  Rat(100 * d[1] * long[2], d[2] * long[1])

\* the floor of total_settled_12m
MinVolume == 1000

\* flagged_chains: WHERE avg_12m_win_rate > 0 AND avg_3m_win_rate > 0
\*                   AND total_settled_12m > 1000
flagged_chains(cm) ==
    {c \in cm : /\ IsPositive(c.avg_12m_win_rate)
                /\ IsPositive(c.avg_3m_win_rate)
                /\ c.total_settled_12m > MinVolume}

\* the threshold of the final WHERE
DeclineThreshold == 20

\* SELECT ... ROUND(..., 2) ... FROM flagged_chains WHERE decline_percentage >= 20;
\* the rounded columns are in hundredths
AttentionRow(c) ==
    [chain |-> c.chain,
     platform |-> c.platform,
     avg_12m_win_rate |-> RatRound2(c.avg_12m_win_rate[1]),
     avg_3m_win_rate |-> RatRound2(c.avg_3m_win_rate[1]),
     win_rate_decline |-> RatRound2(RatSub(c.avg_12m_win_rate[1], c.avg_3m_win_rate[1])),
     decline_percentage |-> RatRound2(decline_percentage(c)),
     months_of_data |-> c.months_of_data,
     total_settled_12m |-> c.total_settled_12m]

\* start_3m = today - 90 days, start_12m = today - 365 days
get_chains_requiring_attention(t, m, day, current_date, platform_filter, chain_filter) ==
    LET start_3m == day - 90
        start_12m == day - 365
        rows == attention_rows(t, m, start_12m, current_date, platform_filter, chain_filter)
        cm == chain_metrics(monthly_performance(rows), start_12m, start_3m)
    IN  {AttentionRow(c) : c \in {f \in flagged_chains(cm) :
                                     RatLeq(<<DeclineThreshold, 1>>, decline_percentage(f))}}

\* the limit of the label, in hundredths of a percent
CriticalDecline == 3000

\* the label with the limit included
AlertFrom30(row) == IF row.decline_percentage >= CriticalDecline THEN "Critical" ELSE "Warning"

\* "Critical" if row['decline_percentage'] > 30 else "Warning"
Alert(row) == IF row.decline_percentage > CriticalDecline THEN "Critical" ELSE "Warning"

\* main: "if attention_df is not None and not attention_df.empty"
display_attention(df) == {row @@ [Alert |-> Alert(row)] : row \in df}

(***************************************************************************)
(* SpecAttention: the chains requiring attention over disputes of the last *)
(* thirteen calendar months                                                *)
(***************************************************************************)
MaxAttentionRows == 4

\* 20 January 2026: start_12m is 20 January 2025, start_3m 22 October 2025
AttentionToday == 385

AttentionMapping ==
    << SmRow("s1", Val(ChainA), Val(<<"x">>), Val(1)),
       SmRow("s2", Val(ChainB), Val(<<"y">>), Val(2)) >>

Settled(slug, platform, d, won, refund) ==
    CsRow(slug, Val(platform), d, ACCEPTED, Val(INACCURATE), Val(won), Val(refund), Val(TRUE))

\* disputes of 25 January, 17 October, 6 November and 6 December 2025 and of
\* 15 January 2026
AttentionRows ==
    << Settled("s1", Doordash, 25, 0, 950),
       Settled("s1", Doordash, 290, 1000, 1000),
       Settled("s1", Doordash, 290, 800, 1000),
       Settled("s1", Doordash, 290, 700, 1000),
       Settled("s1", Doordash, 290, 400, 400),
       Settled("s1", Doordash, 310, 400, 1000),
       Settled("s1", Doordash, 310, 350, 1000),
       Settled("s1", Doordash, 310, 120, 300),
       Settled("s1", Doordash, 340, 400, 1000),
       Settled("s1", Doordash, 340, 350, 1000),
       Settled("s1", Doordash, 340, 120, 300),
       Settled("s1", Doordash, 340, 0, 1000),
       CsRow("s1", Val(Doordash), 340, EXPIRED, Val(INACCURATE), Val(400), Val(1000), Val(TRUE)),
       Settled("s1", Grubhub, 290, 1000, 1000),
       Settled("s2", Doordash, 310, 400, 1000),
       Settled("s1", Doordash, 380, 400, 1000) >>

InitAttention ==
    /\ cs \in Tables(AttentionRows, MaxAttentionRows)
    /\ sm = AttentionMapping
    /\ coe = <<>>
    /\ today = AttentionToday
    /\ currentDate = today
    /\ input = Null
    /\ op = "none"
    /\ result = Null

\* main: attention_df = get_chains_requiring_attention(...), then the table
\* with the Alert column
RunChainsRequiringAttention ==
    /\ op = "none"
    /\ \E platform_filter \in {AllPlatforms, {Grubhub}}, chain_filter \in {AllChains, {ChainA}} :
          LET df == get_chains_requiring_attention(cs, sm, today, currentDate,
                                                   platform_filter, chain_filter)
          IN  /\ op' = "get_chains_requiring_attention"
              /\ input' = [platform_filter |-> platform_filter,
                           chain_filter |-> chain_filter]
              /\ result' = [df |-> df, display_attention |-> display_attention(df)]
    /\ UNCHANGED <<cs, sm, coe, today, currentDate>>

NextAttention == RunChainsRequiringAttention

SpecAttention == InitAttention /\ [][NextAttention]_vars

(***************************************************************************)
(***************************************************************************)
(* recovery_dashboard_v2.py: get_platform_recovery and get_chain_recovery  *)
(***************************************************************************)
\* df['lost'] = df['settled'] - df['won'], with the operands exchanged
lost_reversed(settled, won) == won - settled

\* df['lost'] = df['settled'] - df['won']
lost_column(settled, won) == settled - won

\* total_contested of the two views: the refunds of every inaccurate dispute
refunds_if_inaccurate(r) ==
    IF IsInaccurate(r.error_category) THEN Coalesce(r.enabled_customer_refunds, 0) ELSE 0

\* pending of get_platform_recovery: inaccurate, external_status NOT IN
\* ('ACCEPTED', 'DENIED'), the column customer_refunds
platform_pending(r) ==
    IF IsInaccurate(r.error_category) /\ r.external_status \notin {ACCEPTED, DENIED}
    THEN Coalesce(r.customer_refunds, 0)
    ELSE 0

\* pending of get_chain_recovery: external_status NOT IN ('ACCEPTED', 'DENIED')
chain_pending(r) ==
    IF r.external_status \notin {ACCEPTED, DENIED}
    THEN Coalesce(r.enabled_customer_refunds, 0)
    ELSE 0

\* platform_data: GROUP BY cs.platform; then lost and win_rate
PlatformRecoveryRow(rows, platform) ==
    LET g == SelectSeq(rows, LAMBDA r : r.platform = platform)
        won == SumSeq(Map(g, won_amount))
        settled == SumSeq(Map(g, settled_amount))
    IN  [platform |-> platform,
         total_contested |-> SumSeq(Map(g, refunds_if_inaccurate)),
         won |-> won,
         settled |-> settled,
         pending |-> SumSeq(Map(g, platform_pending)),
         dispute_count |-> Len(SelectSeq(g, LAMBDA r : IsInaccurate(r.error_category))),
         lost |-> lost_column(settled, won),
         win_rate |-> PyWinRate(Val(won), Val(settled))]

get_platform_recovery(t, date_range, platform_filter, chain_filter) ==
    LET rows == SelectSeq(t, LAMBDA r : DateFilter(r, date_range)
                                        /\ PlatformFilter(r, platform_filter))
    IN  {PlatformRecoveryRow(rows, p) : p \in {rows[i].platform : i \in 1..Len(rows)}}

\* the date, platform and chain filters of build_filter_clause and of
\* won_filters: "if platform_filter and 'All Platforms' not in platform_filter"
ViewFilters(r, date_range, platform_filter, chain_filter) ==
    /\ DateFilter(r, date_range)
    /\ (platform_filter # {} /\ AllPlatforms \cap platform_filter = {})
          => InList(r.platform, platform_filter)
    /\ (chain_filter # {} /\ AllChains \cap chain_filter = {})
          => InList(r.chain, chain_filter)

\* build_filter_clause(..., include_chain=True): only inaccurate orders
build_filter_clause(r, date_range, platform_filter, chain_filter) ==
    /\ IsInaccurate(r.error_category)
    /\ ViewFilters(r, date_range, platform_filter, chain_filter)

\* HAVING dispute_count > 10
MinDisputes == 10

\* LIMIT 20
ChainLimit == 20

\* won_by_chain: Won of every category, WHERE sm.chain IS NOT NULL
won_by_chain(t, m, date_range, platform_filter, chain_filter) ==
    LET rows == SelectSeq(JoinSm(t, m),
                    LAMBDA r : ~IsNull(r.chain)
                               /\ ViewFilters(r, date_range, platform_filter, chain_filter))
    IN  [ch \in {rows[i].chain : i \in 1..Len(rows)} |->
            SumSeq(Map(SelectSeq(rows, LAMBDA r : r.chain = ch), won_amount))]

\* inaccurate_metrics LEFT JOIN won_by_chain; then lost and win_rate
ChainRecoveryRow(rows, w, ch) ==
    LET g == SelectSeq(rows, LAMBDA r : r.chain = ch)
        won == IF ch \in DOMAIN w THEN w[ch] ELSE 0
        settled == SumSeq(Map(g, settled_all_categories))
    IN  [chain |-> ch,
         total_contested |-> SumSeq(Map(g, LAMBDA r : Coalesce(r.enabled_customer_refunds, 0))),
         won |-> won,
         settled |-> settled,
         pending |-> SumSeq(Map(g, chain_pending)),
         dispute_count |-> Len(g),
         location_count |-> CountDistinct(Map(g, LAMBDA r : Val(r.slug))),
         lost |-> lost_column(settled, won),
         win_rate |-> PyWinRate(Val(won), Val(settled))]

\* ORDER BY i.total_contested DESC LIMIT 20: the chains with fewer than 20
\* chains above them (a tie at the limit keeps both)
get_chain_recovery(t, m, date_range, platform_filter, chain_filter) ==
    LET rows == SelectSeq(JoinSm(t, m),
                    LAMBDA r : build_filter_clause(r, date_range, platform_filter, chain_filter)
                               /\ ~IsNull(r.chain))
        w == won_by_chain(t, m, date_range, platform_filter, chain_filter)
        all == {ChainRecoveryRow(rows, w, ch) : ch \in {rows[i].chain : i \in 1..Len(rows)}}
        having == {x \in all : x.dispute_count > MinDisputes}
    IN  {x \in having :
            Cardinality({y \in having : y.total_contested > x.total_contested}) < ChainLimit}

(***************************************************************************)
(* SpecViews: the four recovery views (overall, monthly, per platform, per *)
(* chain) over disputes that differ in status, category, raised flag,      *)
(* platform and amounts, alone or with eleven more disputes of chain A     *)
(***************************************************************************)
MaxViewRows == 2

\* 14 February
ViewsToday == 45

ViewsMapping ==
    << SmRow("s1", Val(ChainA), Val(<<"x">>), Val(1)),
       SmRow("s2", Val(ChainB), Val(<<"y">>), Val(2)) >>

\* a dispute with the column customer_refunds
ViewRow(slug, platform, d, st, cat, won, refund, raised, customer_refunds) ==
    CsRow(slug, platform, d, st, cat, won, refund, raised)
        @@ [customer_refunds |-> customer_refunds]

CategoryRaised ==
    << <<Val(Other), Val(TRUE)>>, <<Val(INACCURATE), Val(TRUE)>>,
       <<Val(INACCURATE), Val(FALSE)>> >>

\* slug, platform, date, won, refund and customer_refunds
ViewAmounts ==
    << <<"s1", Val(Doordash), 40, Val(60), Val(100), Val(110)>>,
       <<"s2", Val(UberEats), 40, Val(150), Val(100), Val(100)>> >>

ViewRows ==
    Product3(StatusList, CategoryRaised, ViewAmounts,
             LAMBDA st, cr, a :
                 ViewRow(a[1], a[2], a[3], st, cr[1], a[4], a[5], cr[2], a[6]))

\* eleven denied inaccurate disputes of chain A, of no amount
ElevenDisputes ==
    [i \in 1..(MinDisputes + 1) |->
        ViewRow("s1", Val(Doordash), 40, DENIED, Val(INACCURATE), Val(0), Val(0),
                Val(TRUE), Val(0))]

InitViews ==
    /\ cs \in {pre \o t : pre \in {<<>>, ElevenDisputes}, t \in Tables(ViewRows, MaxViewRows)}
    /\ sm = ViewsMapping
    /\ coe = <<>>
    /\ today = ViewsToday
    /\ currentDate = today
    /\ input = Null
    /\ op = "none"
    /\ result = Null

ViewDateRanges == {<<>>, <<today - 30, today>>}

RunViewOverall ==
    /\ op = "none"
    /\ \E date_range \in ViewDateRanges :
          /\ op' = "get_overall_recovery"
          /\ input' = [date_range |-> date_range, platform_filter |-> AllPlatforms,
                       chain_filter |-> AllChains]
          /\ result' = {get_overall_recovery(cs, sm, date_range, AllPlatforms, AllChains)}
    /\ UNCHANGED <<cs, sm, coe, today, currentDate>>

RunViewMonthly ==
    /\ op = "none"
    /\ \E date_range \in ViewDateRanges :
          /\ op' = "get_monthly_recovery"
          /\ input' = [date_range |-> date_range, platform_filter |-> AllPlatforms,
                       chain_filter |-> AllChains]
          /\ result' = Range(get_monthly_recovery(cs, date_range, AllPlatforms, AllChains))
    /\ UNCHANGED <<cs, sm, coe, today, currentDate>>

RunViewPlatform ==
    /\ op = "none"
    /\ \E date_range \in {<<today - 30, today>>}, platform_filter \in {AllPlatforms, {Doordash}} :
          /\ op' = "get_platform_recovery"
          /\ input' = [date_range |-> date_range, platform_filter |-> platform_filter,
                       chain_filter |-> AllChains]
          /\ result' = get_platform_recovery(cs, date_range, platform_filter, AllChains)
    /\ UNCHANGED <<cs, sm, coe, today, currentDate>>

RunViewChain ==
    /\ op = "none"
    /\ \E date_range \in {<<today - 30, today>>}, chain_filter \in {AllChains, {ChainA}} :
          /\ op' = "get_chain_recovery"
          /\ input' = [date_range |-> date_range, platform_filter |-> AllPlatforms,
                       chain_filter |-> chain_filter]
          /\ result' = get_chain_recovery(cs, sm, date_range, AllPlatforms, chain_filter)
    /\ UNCHANGED <<cs, sm, coe, today, currentDate>>

NextViews == RunViewOverall \/ RunViewMonthly \/ RunViewPlatform \/ RunViewChain

SpecViews == InitViews /\ [][NextViews]_vars

(***************************************************************************)
(* SpecAlias: the two segmentations (by the locations of the orders, by    *)
(* the slugs of the disputes) before and after a counted location gets one *)
(* more platform slug                                                      *)
(***************************************************************************)
MaxAliasRows == 2

\* 14 February
AliasToday == 45

AliasMapping ==
    << SmRow("s1", Val(ChainA), Val(<<"x">>), Val(1)),
       SmRow("s2", Val(ChainA), Val(<<"y">>), Val(2)),
       SmRow("s3", Val(ChainB), Val(<<"x">>), Val(3)),
       SmRow("s4", Val(ChainB), Val(<<"y">>), Val(4)) >>

Order(chain, b_name, platform) ==
    CoeRow(Val(chain), Val(b_name), Val(platform), 40, Val(TRUE), Val(40))

AliasOrders ==
    << Order(ChainA, <<"x">>, Doordash), Order(ChainA, <<"y">>, Doordash),
       Order(ChainB, <<"x">>, Doordash), Order(ChainB, <<"y">>, Doordash) >>

AliasDisputes ==
    << CsRow("s1", Val(Doordash), 40, ACCEPTED, Val(INACCURATE), Val(75), Val(100), Val(TRUE)),
       CsRow("s2", Val(Doordash), 40, ACCEPTED, Val(INACCURATE), Val(75), Val(100), Val(TRUE)),
       CsRow("s3", Val(Doordash), 40, ACCEPTED, Val(INACCURATE), Val(75), Val(100), Val(TRUE)),
       CsRow("s4", Val(Doordash), 40, ACCEPTED, Val(INACCURATE), Val(75), Val(100), Val(TRUE)) >>

InitAlias ==
    /\ cs \in Tables(AliasDisputes, MaxAliasRows)
    /\ coe \in Tables(AliasOrders, MaxAliasRows)
    /\ sm = AliasMapping
    /\ today = AliasToday
    /\ currentDate = today
    /\ input = Null
    /\ op = "none"
    /\ result = Null

\* chain_segments and segmented_chains as rows
SegmentRowsOf(location_count, rank) ==
    {[chain |-> ch, location_count |-> location_count[ch],
      rank_by_locations |-> rank[ch], segment |-> segmented_chains(rank)[ch]] :
        ch \in DOMAIN location_count}

\* the segmentation of weekly_scorecard.py get_chain_segmentation (orders)
\* and the one of get_chains_movement.py and get_segment_monthly_data
\* (disputes), each with its own ROW_NUMBER() tie order
RunSegmentations ==
    /\ op \in {"none", "slug added"}
    /\ \E by_orders \in Rankings(chain_sizes(coe, currentDate)),
          by_disputes \in Rankings(chain_segments(cs, sm, currentDate)) :
          result' = [now |-> [orders |-> SegmentRowsOf(chain_sizes(coe, currentDate),
                                                       by_orders),
                              disputes |-> SegmentRowsOf(chain_segments(cs, sm, currentDate),
                                                         by_disputes)],
                     before |-> IF op = "none" THEN Null ELSE result.before]
    /\ op' = IF op = "none" THEN "segmented" ELSE "segmented again"
    /\ UNCHANGED data

\* the environment: a location that has an order in the census and a
\* dispute in the trailing 30 days is listed on one more platform, under a
\* new slug, with an order and a dispute of the new listing
AddPlatformSlug ==
    /\ op = "segmented"
    /\ \E j \in 1..Len(sm) :
          /\ \E i \in 1..Len(cs) : cs[i].slug = sm[j].slug
          /\ \E i \in 1..Len(coe) : coe[i].chain = sm[j].chain /\ coe[i].b_name = sm[j].b_name
          /\ sm' = Append(sm, SmRow("s9", sm[j].chain, sm[j].b_name, sm[j].b_name_id))
          /\ cs' = Append(cs, CsRow("s9", Val(UberEats), 40, ACCEPTED, Val(INACCURATE),
                                    Val(75), Val(100), Val(TRUE)))
          /\ coe' = Append(coe, CoeRow(sm[j].chain, sm[j].b_name, Val(UberEats), 40,
                                       Val(TRUE), Val(40)))
          /\ input' = Val(sm[j])
    /\ op' = "slug added"
    /\ result' = [now |-> Null, before |-> result.now]
    /\ UNCHANGED <<today, currentDate>>

NextAlias == RunSegmentations \/ AddPlatformSlug

SpecAlias == InitAlias /\ [][NextAlias]_vars

(***************************************************************************)
(* test_triangulation.py: test_reconciliation                              *)
(***************************************************************************)
\* current_month_start = date(2025, 9, 1), current_month_end = date(2025, 9, 30)
SeptemberStart == 244
SeptemberEnd == 273

\* CONCAT(chain, '|', b_name)
ConcatBar(a, b) == Concat(Concat(a, Val(<<"|">>)), b)

\* WHERE order_date BETWEEN ... AND is_loop_enabled = true
\*   AND loop_raised_timestamp IS NOT NULL
TriangulationOrders(c) ==
    SelectSeq(c, LAMBDA o : Between(o.order_date, SeptemberStart, SeptemberEnd)
                            /\ Qualifying(o))

\* query1: COUNT(DISTINCT CONCAT(chain, b_name))
total_by_concat(c) ==
    CountDistinct(Map(TriangulationOrders(c), LAMBDA o : Concat(o.chain, o.b_name)))

\* query2: SUM(locs) over chain_locs (GROUP BY chain); NULL over no group
total_by_chain(c) ==
    LET rows == TriangulationOrders(c)
        chains == OrderBy({rows[i].chain : i \in 1..Len(rows)}, NullableStrLeq)
    IN  SqlSum(Map(chains, LAMBDA ch :
                CountDistinct(Map(SelectSeq(rows, LAMBDA o : o.chain = ch),
                                  LAMBDA o : Concat(o.chain, o.b_name)))))

\* query3: COUNT(DISTINCT CONCAT(chain, '|', b_name))
total_by_concat_bar(c) ==
    CountDistinct(Map(TriangulationOrders(c), LAMBDA o : ConcatBar(o.chain, o.b_name)))

\* "if total1 == total2 == total3" (a NULL total2 is NaN and equals nothing)
test_reconciliation(c) ==
    LET total1 == total_by_concat(c)
        total2 == total_by_chain(c)
        total3 == total_by_concat_bar(c)
    IN  [total1 |-> total1, total2 |-> total2, total3 |-> total3,
         passed |-> (total2 = Val(total1) /\ total1 = total3)]

(***************************************************************************)
(* SpecTriangulation: the three location counts over orders whose chain    *)
(* and b_name are one or two characters long                               *)
(***************************************************************************)
MaxTriangulationRows == 2

TriangulationChains == <<Val(<<"A">>), Val(<<"A", "B">>), Null>>
TriangulationNames == <<Val(<<"C">>), Val(<<"B", "C">>), Null>>
\* 7 September and 19 July
TriangulationDates == <<250, 200>>

TriangulationRows ==
    Product3(TriangulationChains, TriangulationNames, TriangulationDates,
             LAMBDA ch, b, d : CoeRow(ch, b, Val(Doordash), d, Val(TRUE), Val(d)))

InitTriangulation ==
    /\ coe \in Tables(TriangulationRows, MaxTriangulationRows)
    /\ cs = <<>>
    /\ sm = <<>>
    /\ today = SeptemberEnd
    /\ currentDate = today
    /\ input = Null
    /\ op = "none"
    /\ result = Null

RunTestReconciliation ==
    /\ op = "none"
    /\ op' = "test_reconciliation"
    /\ result' = test_reconciliation(coe)
    /\ UNCHANGED data

NextTriangulation == RunTestReconciliation

SpecTriangulation == InitTriangulation /\ [][NextTriangulation]_vars

(***************************************************************************)
(* weekly_scorecard.py: get_segment_monthly_data                           *)
(***************************************************************************)
\* chain_segments counted over the disputes of the period asked for
segment_census_of_period(t, m, start_date, end_date, current_date) ==
    LET rows == SelectSeq(JoinSm(t, m),
                          LAMBDA r : Between(r.chargeback_date, start_date, end_date)
                                     /\ ChainPresent(r))
    IN  [ch \in {rows[i].chain[1] : i \in 1..Len(rows)} |->
            CountDistinct(Map(SelectSeq(rows, LAMBDA r : r.chain = Val(ch)),
                              LAMBDA r : Val(r.slug)))]

\* chain_segments of the query built for start_date and end_date: the
\* disputes dated >= DATE_SUB(CURRENT_DATE(), INTERVAL 30 DAY)
segment_census(t, m, start_date, end_date, current_date) ==
    chain_segments(t, m, current_date)

\* monthly_data: JOIN segmented_chains sc ON sm.chain = sc.chain
\* WHERE cs.chargeback_date BETWEEN ... AND sc.segment = '{segment}'
segment_monthly_rows(t, m, start_date, end_date, segment, sc) ==
    SelectSeq(JoinSegments(JoinSm(t, m), sc),
              LAMBDA r : Between(r.chargeback_date, start_date, end_date)
                         /\ r.segment = segment)

\* segment_locations: the locations of the orders of the period whose chain
\* is of the segment
segment_locations(c, start_date, end_date, segment, sc) ==
    CountDistinct(Map(SelectSeq(c,
                          LAMBDA o : /\ ~IsNull(o.chain)
                                     /\ o.chain[1] \in DOMAIN sc
                                     /\ sc[o.chain[1]] = segment
                                     /\ Between(o.order_date, start_date, end_date)
                                     /\ Qualifying(o)),
                      LAMBDA o : Concat(o.chain, o.b_name)))

\* COUNT(DISTINCT CASE WHEN TRIM(platform) = p THEN slug END), summed over
\* the chains
SlugsOn(md, platform) ==
    LET chains == {md[i].chain : i \in 1..Len(md)}
        of(ch) == CountDistinct(Map(SelectSeq(md, LAMBDA r : r.chain = ch
                                                            /\ Trim(r.platform) = Val(platform)),
                                    LAMBDA r : Val(r.slug)))
        RECURSIVE total(_)
        total(S) == IF S = {} THEN 0
                    ELSE LET ch == CHOOSE x \in S : TRUE IN of(ch) + total(S \ {ch})
    IN  total(chains)

\* platform_metrics summed, and the dict of the result ("if pd.notna(...)
\* else 0"); rank: the ROW_NUMBER() numbering of this query
get_segment_monthly_data(t, m, c, start_date, end_date, month_label, segment, current_date, rank) ==
    LET sc == segmented_chains(rank)
        md == segment_monthly_rows(t, m, start_date, end_date, segment, sc)
        recovered == SumSeq(Map(md, won_amount))
        settled == SumSeq(Map(md, settled_amount))
    IN  [month |-> month_label,
         chains |-> CountDistinct(Map(md, LAMBDA r : r.chain)),
         unique_locations |-> segment_locations(c, start_date, end_date, segment, sc),
         dd_locations |-> SlugsOn(md, Doordash),
         ue_locations |-> SlugsOn(md, UberEats),
         gh_locations |-> SlugsOn(md, Grubhub),
         disputed |-> Len(md),
         won |-> Len(SelectSeq(md, LAMBDA r : scorecard_dispute_status(r) = "won")),
         lost |-> Len(SelectSeq(md, LAMBDA r : scorecard_dispute_status(r) = "lost")),
         pending |-> Len(SelectSeq(md, LAMBDA r : scorecard_dispute_status(r) = "pending")),
         in_progress |-> Len(SelectSeq(md, LAMBDA r : r.external_status = IN_PROGRESS)),
         to_be_raised |-> Len(SelectSeq(md, LAMBDA r : r.external_status = TO_BE_RAISED)),
         expired |-> Len(SelectSeq(md, LAMBDA r : r.external_status = EXPIRED)),
         recovered |-> recovered,
         settled |-> settled,
         win_rate |-> IF md = <<>> THEN 0
                      ELSE Coalesce(SqlWinRate(Val(recovered), Val(settled)), 0)]

\* datetime.date(year, month, day)
date(year, month, day) == [year |-> year, month |-> month, day |-> day]

IsLeap(year) == year % 4 = 0 /\ (year % 100 # 0 \/ year % 400 = 0)

\* calendar.monthrange(year, month)[1]: the number of days of the month
monthrange(year, month) == IF month = 2 /\ IsLeap(year) THEN 29 ELSE MonthLen[month]

\* date.toordinal(): the days from 1 January of the year 1, that day being 1
RECURSIVE DaysBeforeMonth(_, _)
DaysBeforeMonth(year, month) ==
    IF month = 1 THEN 0
    ELSE DaysBeforeMonth(year, month - 1) + monthrange(year, month - 1)

toordinal(d) ==
    365 * (d.year - 1) + ((d.year - 1) \div 4) - ((d.year - 1) \div 100)
        + ((d.year - 1) \div 400) + DaysBeforeMonth(d.year, d.month) + d.day

\* d - timedelta(days=1)
DayBefore(d) ==
    IF d.day > 1 THEN date(d.year, d.month, d.day - 1)
    ELSE IF d.month > 1 THEN date(d.year, d.month - 1, monthrange(d.year, d.month - 1))
    ELSE date(d.year - 1, 12, 31)

\* the wrap of get_month_dates with the year left as it is
RECURSIVE WhileMonthNotPositiveSameYear(_, _)
WhileMonthNotPositiveSameYear(year, month) ==
    IF month <= 0 THEN WhileMonthNotPositiveSameYear(year, month + 12)
    ELSE <<year, month>>

\* while month <= 0: month += 12; year -= 1
RECURSIVE WhileMonthNotPositive(_, _)
WhileMonthNotPositive(year, month) ==
    IF month <= 0 THEN WhileMonthNotPositive(year - 1, month + 12)
    ELSE <<year, month>>

\* get_month_dates(months_back): the first and the last day of the month
\* months_back months before the month of the date current (today)
get_month_dates(current, months_back) ==
    LET ym == WhileMonthNotPositive(current.year, current.month - months_back)
    IN  <<date(ym[1], ym[2], 1), date(ym[1], ym[2], monthrange(ym[1], ym[2]))>>

\* a day of the year 2025 as a date, and a date as a day counted from
\* 1 January 2025
DateOfDay(day) == date(2025, MonthOf(day), DayOfMonth(day))
DayOfDate(d) == toordinal(d) - toordinal(date(2025, 1, 1)) + 1

\* get_month_dates of a day of 2025, in days of that year
MonthDatesOfDay(day, months_back) ==
    <<DayOfDate(get_month_dates(DateOfDay(day), months_back)[1]),
      DayOfDate(get_month_dates(DateOfDay(day), months_back)[2])>>

\* the four periods of the segment breakdown: the last 30 days and the
\* three months before the month of day
BreakdownPeriods(day) ==
    << <<day - 30, day>>, MonthDatesOfDay(day, 1), MonthDatesOfDay(day, 2),
       MonthDatesOfDay(day, 3) >>

(***************************************************************************)
(* SpecBreakdown: the segment breakdown of the scorecard, four periods     *)
(* against one census                                                      *)
(***************************************************************************)
MaxBreakdownRows == 2

\* 15 May: the census starts on 15 April
BreakdownToday == 135

\* the number of chains of the scenario: chain k has k slugs
ScenarioChains == 16

BreakdownStatuses == <<ACCEPTED, TO_BE_RAISED>>
\* 10 May, 10 April (before the census) and 11 March
BreakdownDates == <<130, 100, 70>>

BreakdownRows ==
    Product3(<<"s1", "s2", "s3", "s4">>, BreakdownDates, BreakdownStatuses,
             LAMBDA slug, d, st :
                 CsRow(slug, Val(Doordash), d, st, Val(INACCURATE), Val(75), Val(100),
                       Val(TRUE)))

ChainNumbered(k) == <<"K", Digit[(k \div 10) + 1], Digit[(k % 10) + 1]>>

\* the slugs <<k, j>>, j = 1..k, of the chain numbered k
ScenarioSlugs ==
    Flatten([k \in 1..ScenarioChains |-> [j \in 1..k |-> <<k, j>>]])

ScenarioBreakdownMapping ==
    [i \in 1..Len(ScenarioSlugs) |->
        SmRow(ScenarioSlugs[i], Val(ChainNumbered(ScenarioSlugs[i][1])),
              Val(LocationName(ScenarioSlugs[i][2])), Val(i))]

\* one dispute of 10 May of every slug, and disputes of 10 April and of
\* 11 March of the chains numbered 1 and 16
ScenarioBreakdown ==
    [i \in 1..Len(ScenarioSlugs) |->
        CsRow(ScenarioSlugs[i], Val(Doordash), 130, ACCEPTED, Val(INACCURATE),
              Val(75), Val(100), Val(TRUE))]
    \o << CsRow(<<1, 1>>, Val(Doordash), 100, ACCEPTED, Val(INACCURATE), Val(75), Val(100), Val(TRUE)),
          CsRow(<<16, 1>>, Val(Doordash), 100, ACCEPTED, Val(INACCURATE), Val(75), Val(100), Val(TRUE)),
          CsRow(<<1, 1>>, Val(Doordash), 70, ACCEPTED, Val(INACCURATE), Val(75), Val(100), Val(TRUE)),
          CsRow(<<16, 2>>, Val(Doordash), 70, ACCEPTED, Val(INACCURATE), Val(75), Val(100), Val(TRUE)) >>

InitBreakdown ==
    /\ \/ /\ cs \in Tables(BreakdownRows, MaxBreakdownRows)
          /\ sm = AliasMapping
       \/ /\ cs = ScenarioBreakdown
          /\ sm = ScenarioBreakdownMapping
    /\ coe = AliasOrders
    /\ today = BreakdownToday
    /\ currentDate = today
    /\ input = Null
    /\ op = "none"
    /\ result = Null

\* ROW_NUMBER() OVER (ORDER BY location_count DESC): the numberings of
\* Rankings, built rank by rank (any of the largest chains left comes next)
RECURSIVE RowNumbersFrom(_, _, _)
RowNumbersFrom(location_count, placed, next) ==
    LET rest == DOMAIN location_count \ DOMAIN placed
    IN  IF rest = {} THEN {placed}
        ELSE UNION {RowNumbersFrom(location_count, placed @@ (ch :> next), next + 1) :
                      ch \in {c \in rest :
                                 \A d \in rest : location_count[c] >= location_count[d]}}

RowNumbers(location_count) == RowNumbersFrom(location_count, <<>>, 1)

\* the census of the query of the k-th period
CensusOfPeriod(k) ==
    segment_census(cs, sm, BreakdownPeriods(today)[k][1], BreakdownPeriods(today)[k][2],
                   currentDate)

\* main, "for segment in segments": seg_mtd, seg_m1, seg_m2 and seg_m3, four
\* queries, each with its own numbering of the tied chains
RunSegmentBreakdown ==
    /\ op = "none"
    /\ \E segment \in {P0, P1} :
       \E r1 \in RowNumbers(CensusOfPeriod(1)), r2 \in RowNumbers(CensusOfPeriod(2)),
          r3 \in RowNumbers(CensusOfPeriod(3)), r4 \in RowNumbers(CensusOfPeriod(4)) :
          /\ op' = "get_segment_monthly_data"
          /\ input' = Val(segment)
          /\ result' = [k \in 1..4 |->
                LET period == BreakdownPeriods(today)[k]
                    rank == <<r1, r2, r3, r4>>[k]
                IN  [period |-> period,
                     segments |-> SegmentRowsOf(CensusOfPeriod(k), rank),
                     data |-> get_segment_monthly_data(cs, sm, coe, period[1], period[2],
                                  k, segment, currentDate, rank)]]
    /\ UNCHANGED <<cs, sm, coe, today, currentDate>>

NextBreakdown == RunSegmentBreakdown

SpecBreakdown == InitBreakdown /\ [][NextBreakdown]_vars

(***************************************************************************)
(* SpecTwice: the segmentation computed twice over the same census         *)
(***************************************************************************)
MaxTwiceRows == 2

\* the disputes of 9 February and of 10 January of four slugs of two chains
TwiceDisputes ==
    Product3(<<"s1", "s2", "s3", "s4">>, <<40, 10>>, <<ACCEPTED>>,
             LAMBDA slug, d, st :
                 CsRow(slug, Val(Doordash), d, st, Val(INACCURATE), Val(75), Val(100),
                       Val(TRUE)))

\* the locations of the chain numbered k: ScenarioChains + 1 - k of them, and
\* one for each of the last two chains
TiedLocations(k) == IF k >= ScenarioChains - 1 THEN 1 ELSE ScenarioChains + 1 - k

\* the census of ScenarioChains chains whose last two have one location each
TiedCensus ==
    Flatten([k \in 1..ScenarioChains |-> ChainOrders(ChainNumbered(k), TiedLocations(k))])

InitTwice ==
    /\ \/ /\ coe \in Tables(CensusRows, MaxTwiceRows) \cup {TiedCensus}
          /\ cs = <<>>
       \/ /\ coe = <<>>
          /\ cs \in Tables(TwiceDisputes, MaxTwiceRows)
    /\ sm = AliasMapping
    /\ today = SegmentationToday
    /\ currentDate = today
    /\ input = Null
    /\ op = "none"
    /\ result = Null

\* get_chain_segmentation called twice: two queries over the same tables,
\* each with its own ROW_NUMBER() numbering of the tied chains
RunChainSegmentationTwice ==
    /\ op = "none"
    /\ \E first \in RowNumbers(chain_sizes(coe, currentDate)),
          second \in RowNumbers(chain_sizes(coe, currentDate)) :
          /\ op' = "get_chain_segmentation twice"
          /\ result' = [first |-> get_chain_segmentation(coe, cs, sm, currentDate, first),
                        second |-> get_chain_segmentation(coe, cs, sm, currentDate, second)]
    /\ UNCHANGED data

\* the chain_segments and segmented_chains of get_chains_movement.py, queried
\* twice over the same tables
RunChainSegmentsTwice ==
    /\ op = "none"
    /\ \E first \in RowNumbers(chain_segments(cs, sm, currentDate)),
          second \in RowNumbers(chain_segments(cs, sm, currentDate)) :
          /\ op' = "chain_segments twice"
          /\ result' = [first |-> SegmentRowsOf(chain_segments(cs, sm, currentDate), first),
                        second |-> SegmentRowsOf(chain_segments(cs, sm, currentDate), second)]
    /\ UNCHANGED data

NextTwice == RunChainSegmentationTwice \/ RunChainSegmentsTwice

SpecTwice == InitTwice /\ [][NextTwice]_vars

(***************************************************************************)
(* recovery_dashboard_v2.py: get_win_rate_by_order_value and               *)
(* get_win_rate_by_order_value_monthly (amounts and subtotals in cents)    *)
(***************************************************************************)
\* the labels of the CASE ... END as value_bracket, in the order of its arms
BracketLabels ==
    <<"$0-20", "$20-40", "$40-60", "$60-80", "$80-100", "$100-150", "$150-200", "$200+">>

\* the CASE with "<" in place of "<=": an order of exactly 20 falls in $20-40
bracket_order_exclusive(subtotal) ==
    LET v == Coalesce(subtotal, 0)
    IN  IF v < 2000 THEN 1
        ELSE IF v < 4000 THEN 2
        ELSE IF v < 6000 THEN 3
        ELSE IF v < 8000 THEN 4
        ELSE IF v < 10000 THEN 5
        ELSE IF v < 15000 THEN 6
        ELSE IF v < 20000 THEN 7
        ELSE 8

\* CASE WHEN COALESCE(cs.subtotal, 0) <= 20 THEN '$0-20' ... ELSE '$200+' END
value_bracket(subtotal) ==
    LET v == Coalesce(subtotal, 0)
    IN  IF v <= 2000 THEN "$0-20"
        ELSE IF v <= 4000 THEN "$20-40"
        ELSE IF v <= 6000 THEN "$40-60"
        ELSE IF v <= 8000 THEN "$60-80"
        ELSE IF v <= 10000 THEN "$80-100"
        ELSE IF v <= 15000 THEN "$100-150"
        ELSE IF v <= 20000 THEN "$150-200"
        ELSE "$200+"

\* CASE WHEN COALESCE(cs.subtotal, 0) <= 20 THEN 1 ... ELSE 8 END
bracket_order(subtotal) ==
    LET v == Coalesce(subtotal, 0)
    IN  IF v <= 2000 THEN 1
        ELSE IF v <= 4000 THEN 2
        ELSE IF v <= 6000 THEN 3
        ELSE IF v <= 8000 THEN 4
        ELSE IF v <= 10000 THEN 5
        ELSE IF v <= 15000 THEN 6
        ELSE IF v <= 20000 THEN 7
        ELSE 8

\* 1 when the category is LIKE '%INACCURATE%'
is_inaccurate_dispute(r) == IF IsInaccurate(r.error_category) THEN 1 ELSE 0

\* WHERE base_where, platform_where and chain_where, with the INNER JOIN of
\* slug_am_mapping when chains are selected
order_value_rows(t, m, date_range, platform_filter, chain_filter) ==
    IF chain_filter # {} /\ AllChains \cap chain_filter = {}
    THEN SelectSeq(JoinSm(t, m),
                   LAMBDA r : ViewFilters(r, date_range, platform_filter, chain_filter))
    ELSE SelectSeq(t, LAMBDA r :
                   /\ Between(r.chargeback_date, date_range[1], date_range[2])
                   /\ (platform_filter # {} /\ AllPlatforms \cap platform_filter = {})
                         => InList(r.platform, platform_filter))

\* the CTE order_value_brackets
order_value_brackets(t, m, date_range, platform_filter, chain_filter) ==
    Map(order_value_rows(t, m, date_range, platform_filter, chain_filter),
        LAMBDA r : [month |-> DateTruncMonth(r.chargeback_date),
                    order_value |-> Coalesce(r.subtotal, 0),
                    value_bracket |-> value_bracket(r.subtotal),
                    bracket_order |-> bracket_order(r.subtotal),
                    won_amount |-> won_amount(r),
                    settled_amount |-> settled_amount(r),
                    is_inaccurate_dispute |-> is_inaccurate_dispute(r)])

\* one group of bracket_summary; win_rate in hundredths of a percent
BracketSummaryRow(g) ==
    LET settled == SumSeq(Map(g, LAMBDA x : x.settled_amount))
        won == SumSeq(Map(g, LAMBDA x : x.won_amount))
        inacc == SelectSeq(g, LAMBDA x : x.is_inaccurate_dispute = 1)
    IN  [value_bracket |-> g[1].value_bracket,
         bracket_order |-> g[1].bracket_order,
         total_disputes |-> SumSeq(Map(g, LAMBDA x : x.is_inaccurate_dispute)),
         total_settled |-> settled,
         total_won |-> won,
         win_rate |-> IF settled > 0 THEN SqlRound(10000 * won, settled) ELSE 0,
         avg_order_value |->
             IF inacc = <<>> THEN Null
             ELSE Val(SqlRound(SumSeq(Map(inacc, LAMBDA x : x.order_value)), Len(inacc)))]

\* the keys <<bracket_order, value_bracket>> of GROUP BY value_bracket, bracket_order
BracketKeys(b) == {<<b[i].bracket_order, b[i].value_bracket>> : i \in 1..Len(b)}

\* GROUP BY, HAVING SUM(settled_amount) > 0, WHERE total_disputes > 0,
\* ORDER BY bracket_order
get_win_rate_by_order_value(t, m, date_range, platform_filter, chain_filter) ==
    LET b == order_value_brackets(t, m, date_range, platform_filter, chain_filter)
        keys == OrderBy(BracketKeys(b), LAMBDA x, y : x[1] <= y[1])
        summary == [i \in 1..Len(keys) |->
                       BracketSummaryRow(SelectSeq(b, LAMBDA x :
                           /\ x.bracket_order = keys[i][1]
                           /\ x.value_bracket = keys[i][2]))]
    IN  SelectSeq(summary, LAMBDA s : s.total_settled > 0 /\ s.total_disputes > 0)

\* one group of monthly_bracket_summary; ROUND(..., 1): tenths of a percent
MonthlyBracketRow(g) ==
    LET settled == SumSeq(Map(g, LAMBDA x : x.settled_amount))
        won == SumSeq(Map(g, LAMBDA x : x.won_amount))
    IN  [month |-> g[1].month,
         value_bracket |-> g[1].value_bracket,
         bracket_order |-> g[1].bracket_order,
         win_rate |-> IF settled > 0 THEN SqlRound(1000 * won, settled) ELSE 0,
         total_disputes |-> SumSeq(Map(g, LAMBDA x : x.is_inaccurate_dispute)),
         total_settled |-> settled]

\* GROUP BY month, value_bracket, bracket_order, HAVING SUM(settled_amount) > 0,
\* ORDER BY bracket_order, month ASC
get_win_rate_by_order_value_monthly(t, m, date_range, platform_filter, chain_filter) ==
    LET b == order_value_brackets(t, m, date_range, platform_filter, chain_filter)
        keys == OrderBy({<<b[i].bracket_order, b[i].month, b[i].value_bracket>> :
                            i \in 1..Len(b)},
                        LAMBDA x, y : x[1] < y[1] \/ (x[1] = y[1] /\ x[2] <= y[2]))
        summary == [i \in 1..Len(keys) |->
                       MonthlyBracketRow(SelectSeq(b, LAMBDA x :
                           /\ x.bracket_order = keys[i][1]
                           /\ x.month = keys[i][2]
                           /\ x.value_bracket = keys[i][3]))]
    IN  SelectSeq(summary, LAMBDA s : s.total_settled > 0)

\* ORDER BY total_contested DESC: the orders in which the rows can be returned
\* (rows of equal total_contested in any order)
OrderedByContested(df) ==
    {s \in [1..Cardinality(df) -> df] :
        /\ \A i, j \in DOMAIN s : i # j => s[i] # s[j]
        /\ \A i, j \in DOMAIN s : i < j => s[i].total_contested >= s[j].total_contested}

(***************************************************************************)
(* SpecOrderValue: the order-value brackets, and the order of the rows of  *)
(* the per-bracket, per-month and per-platform views, over disputes whose  *)
(* subtotals lie on and next to every bracket edge                         *)
(***************************************************************************)
MaxOrderValueRows == 2

\* 14 February
OrderValueToday == 45

\* no subtotal, 0, and every edge with the cent above it
Subtotals ==
    <<Null, Val(0), Val(2000), Val(2001), Val(4000), Val(4001), Val(6000), Val(6001),
      Val(8000), Val(8001), Val(10000), Val(10001), Val(15000), Val(15001),
      Val(20000), Val(20001)>>

\* platform, date, status, category, won and refund
OrderValueDisputes ==
    << <<Val(Doordash), 40, ACCEPTED, Val(INACCURATE), Val(5000), Val(10000)>>,
       <<Val(UberEats), 10, DENIED, Val(INACCURATE), Val(0), Val(20000)>>,
       <<Val(UberEats), 40, ACCEPTED, Val(<<"O", "T", "H", "E", "R">>), Val(3000), Val(10000)>> >>

OrderValueRows ==
    Product3(Subtotals, OrderValueDisputes, <<"s1">>,
             LAMBDA subtotal, d, slug :
                 CsRow(slug, d[1], d[2], d[3], d[4], d[5], d[6], Val(TRUE))
                     @@ [subtotal |-> subtotal, customer_refunds |-> d[6]])

InitOrderValue ==
    /\ cs \in Tables(OrderValueRows, MaxOrderValueRows)
    /\ sm = << SmRow("s1", Val(<<"A">>), Val(<<"x">>), Val(1)) >>
    /\ coe = <<>>
    /\ today = OrderValueToday
    /\ currentDate = today
    /\ input = Null
    /\ op = "none"
    /\ result = Null

RunWinRateByOrderValue ==
    /\ op = "none"
    /\ \E chain_filter \in {AllChains, {<<"A">>}} :
          /\ op' = "get_win_rate_by_order_value"
          /\ result' = get_win_rate_by_order_value(cs, sm, <<1, today>>, AllPlatforms,
                                                   chain_filter)
    /\ UNCHANGED data

RunWinRateByOrderValueMonthly ==
    /\ op = "none"
    /\ \E platform_filter \in {AllPlatforms, {UberEats}} :
          /\ op' = "get_win_rate_by_order_value_monthly"
          /\ result' = get_win_rate_by_order_value_monthly(cs, sm, <<1, today>>,
                                                           platform_filter, AllChains)
    /\ UNCHANGED data

\* get_monthly_recovery: ORDER BY month
RunMonthlyRecoveryRows ==
    /\ op = "none"
    /\ op' = "get_monthly_recovery"
    /\ result' = get_monthly_recovery(cs, <<1, today>>, AllPlatforms, AllChains)
    /\ UNCHANGED data

\* get_platform_recovery: the rows in one of the orders of ORDER BY
\* total_contested DESC
RunPlatformRecoveryRows ==
    /\ op = "none"
    /\ \E df \in OrderedByContested(get_platform_recovery(cs, <<1, today>>, AllPlatforms,
                                                         AllChains)) :
          /\ op' = "get_platform_recovery"
          /\ result' = df
    /\ UNCHANGED data

NextOrderValue ==
    \/ RunWinRateByOrderValue
    \/ RunWinRateByOrderValueMonthly
    \/ RunMonthlyRecoveryRows
    \/ RunPlatformRecoveryRows

SpecOrderValue == InitOrderValue /\ [][NextOrderValue]_vars

(***************************************************************************)
(* weekly_scorecard.py: the sections of the page                           *)
(***************************************************************************)
\* filter_clause_coe: the filters of the sidebar on chargeback_orders_enriched
FilterClauseCoe(o, filter_chains, filter_platforms, filter_bnames) ==
    /\ filter_chains # {} => InList(o.chain, filter_chains)
    /\ filter_platforms # {} => InList(Trim(o.platform), filter_platforms)
    /\ filter_bnames # {} => InList(o.b_name, filter_bnames)

\* location_counts: COUNT(DISTINCT CONCAT(chain, b_name)) of the orders of
\* the period that are loop enabled and raised
location_counts(c, start_date, end_date, filter_chains, filter_platforms, filter_bnames) ==
    CountDistinct(Map(SelectSeq(c,
                          LAMBDA o : /\ Between(o.order_date, start_date, end_date)
                                     /\ Qualifying(o)
                                     /\ FilterClauseCoe(o, filter_chains, filter_platforms,
                                                        filter_bnames)),
                      LAMBDA o : Concat(o.chain, o.b_name)))

\* ROUND(SAFE_DIVIDE(total_won, NULLIF(locations, 0)), 2), in hundredths
avg_per_location(total_won, locations) ==
    IF IsNull(total_won) \/ locations = 0 THEN Null
    ELSE Val(SqlRound(100 * total_won[1], locations))

\* the query of get_monthly_overview and the dict made of its row ("if
\* pd.notna(...) else 0"); avg_per_location_per_month as a fraction
get_monthly_overview(t, m, c, start_date, end_date, month_label, filter_chains, filter_platforms, filter_bnames) ==
    LET md == scorecard_monthly_data(t, m, start_date, end_date,
                                     filter_chains, filter_platforms, filter_bnames)
        recovered == SqlSum(Map(md, won_amount))
        settled == SqlSum(Map(md, settled_amount))
        slugs == SlugsOn(md, Doordash) + SlugsOn(md, UberEats) + SlugsOn(md, Grubhub)
        avg == avg_per_location(recovered, slugs)
    IN  [month |-> month_label,
         chains |-> CountDistinct(Map(md, LAMBDA r : r.chain)),
         unique_locations |-> location_counts(c, start_date, end_date, filter_chains,
                                              filter_platforms, filter_bnames),
         dd_locations |-> SlugsOn(md, Doordash),
         ue_locations |-> SlugsOn(md, UberEats),
         gh_locations |-> SlugsOn(md, Grubhub),
         disputed |-> Len(md),
         won |-> Len(SelectSeq(md, LAMBDA r : scorecard_dispute_status(r) = "won")),
         lost |-> Len(SelectSeq(md, LAMBDA r : scorecard_dispute_status(r) = "lost")),
         pending |-> Len(SelectSeq(md, LAMBDA r : scorecard_dispute_status(r) = "pending")),
         in_progress |-> Len(SelectSeq(md, LAMBDA r : r.external_status = IN_PROGRESS)),
         to_be_raised |-> Len(SelectSeq(md, LAMBDA r : r.external_status = TO_BE_RAISED)),
         expired |-> Len(SelectSeq(md, LAMBDA r : r.external_status = EXPIRED)),
         recovered |-> Coalesce(recovered, 0),
         settled |-> Coalesce(settled, 0),
         win_rate |-> Coalesce(SqlWinRate(recovered, settled), 0),
         avg_per_location_per_month |->
             IF IsNull(avg) THEN Rat(0, 1)
             ELSE Rat(avg[1] * 30, 100 * (end_date - start_date + 1))]

\* recovered_per_location = data['recovered'] / data['unique_locations']
\* if data['unique_locations'] > 0 else 0
overview_recovered_per_location(row) ==
    IF row.unique_locations > 0 THEN Rat(row.recovered, row.unique_locations)
    ELSE Rat(0, 1)

\* df['total_recovered'] / df['unique_locations'].replace(0, 1)
platform_recovered_per_location(row) ==
    Rat(Coalesce(row.total_recovered, 0),
        IF row.unique_locations = 0 THEN 1 ELSE row.unique_locations)

\* format_platform_table: the calculated column added to every row ("if
\* df.empty: return pd.DataFrame()")
format_platform_table(df) ==
    [i \in DOMAIN df |->
        df[i] @@ [recovered_per_location |-> platform_recovered_per_location(df[i])]]

\* one group of mtd_performance and the columns selected of it
SegmentPerformanceRow(g, c, current_month_start, current_month_end, segment, sc) ==
    LET total_won == SqlSum(Map(g, won_amount))
        total_settled == SqlSum(Map(g, settled_all_categories))
        total_locations == segment_locations(c, current_month_start, current_month_end,
                                             segment, sc)
    IN  [segment |-> segment,
         chain_count |-> CountDistinct(Map(g, LAMBDA r : r.chain)),
         location_count |-> total_locations,
         total_won |-> total_won,
         total_settled |-> total_settled,
         dispute_count |-> Len(g),
         win_rate |-> SqlWinRate(total_won, total_settled),
         avg_per_location |-> avg_per_location(total_won, total_locations)]

\* get_segment_performance: chain_segments, segmented_chains, mtd_performance
\* GROUP BY sc.segment, ORDER BY segment; rank: the ROW_NUMBER() numbering
get_segment_performance(t, m, c, current_month_start, current_month_end, rank) ==
    LET sc == segmented_chains(rank)
        md == JoinSegments(
                  SelectSeq(JoinSm(t, m),
                            LAMBDA r : Between(r.chargeback_date, current_month_start,
                                               current_month_end)),
                  sc)
        segs == OrderBy({md[i].segment : i \in 1..Len(md)}, StrLeq)
    IN  [k \in 1..Len(segs) |->
            SegmentPerformanceRow(SelectSeq(md, LAMBDA r : r.segment = segs[k]), c,
                                  current_month_start, current_month_end, segs[k], sc)]

\* the five periods of the page: the last 30 and 90 days and the three
\* months before the month of day
ScorecardPeriods(day) ==
    << <<day - 30, day>>, <<day - 90, day>>, MonthDatesOfDay(day, 1),
       MonthDatesOfDay(day, 2), MonthDatesOfDay(day, 3) >>

\* "Section 1": the five get_monthly_overview calls with the filters of the
\* sidebar; None for each when the query fails
overview_section(t, m, c, day, filters, ok) ==
    [k \in 1..5 |->
        IF ok
        THEN Val(get_monthly_overview(t, m, c, ScorecardPeriods(day)[k][1],
                                      ScorecardPeriods(day)[k][2], k, filters.chains,
                                      filters.platforms, filters.bnames))
        ELSE Null]

\* the rows of the overview table with their $/Location: "if all([...])"
overview_table(sections) ==
    IF \A k \in DOMAIN sections : ~IsNull(sections[k])
    THEN Val([k \in DOMAIN sections |->
                 sections[k][1] @@
                     [recovered_per_location |->
                          overview_recovered_per_location(sections[k][1])]])
    ELSE Null

\* the five get_platform_breakdown(start, end, label) calls of the page and
\* the table of each tab; an empty table for each when the query fails
platform_section(t, m, c, day, ok) ==
    [k \in 1..5 |->
        IF ok
        THEN format_platform_table(
                 get_platform_breakdown(t, m, c, ScorecardPeriods(day)[k][1],
                                        ScorecardPeriods(day)[k][2], {}, {}, {}))
        ELSE <<>>]

(***************************************************************************)
(* SpecScorecard: the sections of the weekly scorecard under the filters   *)
(* of the sidebar, with queries that succeed or fail                       *)
(***************************************************************************)
MaxScorecardRows == 2

\* 15 May
ScorecardToday == 135

\* s1 and s2 are the Doordash and UberEats slugs of chain A at x, s3 is the
\* Grubhub slug of chain B at y
ScorecardMapping ==
    << SmRow("s1", Val(<<"A">>), Val(<<"x">>), Val(1)),
       SmRow("s2", Val(<<"A">>), Val(<<"x">>), Val(1)),
       SmRow("s3", Val(<<"B">>), Val(<<"y">>), Val(2)) >>

\* slug and platform; date; status, category, won and refund
ScorecardRows ==
    Product3(<< <<"s1", Doordash>>, <<"s2", UberEats>>, <<"s3", Grubhub>> >>,
             <<130, 100>>,
             << <<ACCEPTED, Val(INACCURATE), 75, 100>>,
                <<DENIED, Val(<<"O", "T", "H", "E", "R">>), 50, 200>>,
                <<EXPIRED, Val(INACCURATE), 0, 40>> >>,
             LAMBDA sp, d, v :
                 CsRow(sp[1], Val(sp[2]), d, v[1], v[2], Val(v[3]), Val(v[4]), Val(TRUE)))

\* orders of 10 May: chain A at x on Doordash and UberEats, none on Grubhub
ScorecardOrders ==
    << CoeRow(Val(<<"A">>), Val(<<"x">>), Val(Doordash), 130, Val(TRUE), Val(130)),
       CoeRow(Val(<<"A">>), Val(<<"x">>), Val(UberEats), 130, Val(TRUE), Val(130)) >>

\* the selections of the sidebar: "All", one chain, one platform, one location
SidebarFilters ==
    {[chains |-> {}, platforms |-> {}, bnames |-> {}],
     [chains |-> {<<"B">>}, platforms |-> {}, bnames |-> {}],
     [chains |-> {}, platforms |-> {Doordash}, bnames |-> {}],
     [chains |-> {}, platforms |-> {}, bnames |-> {<<"y">>}]}

InitScorecard ==
    /\ cs \in Tables(ScorecardRows, MaxScorecardRows)
    /\ sm = ScorecardMapping
    /\ coe \in {ScorecardOrders, <<>>}
    /\ today = ScorecardToday
    /\ currentDate = today
    /\ input \in SidebarFilters
    /\ op = "none"
    /\ result = Null

\* "Overall Monthly Performance": the overview table and, under it, the
\* platform tabs
RunOverallSection ==
    /\ op = "none"
    /\ \E overview_ok, platform_ok \in BOOLEAN :
          /\ op' = "overall section"
          /\ result' =
                LET sections == overview_section(cs, sm, coe, today, input, overview_ok)
                IN  [raised |-> FALSE,
                     overview |-> sections,
                     table |-> overview_table(sections),
                     platforms |->
                         IF IsNull(overview_table(sections)) THEN Null
                         ELSE Val(platform_section(cs, sm, coe, today, platform_ok))]
    /\ UNCHANGED data

\* "Segment Performance": get_chain_segmentation, which returns an empty
\* table when its query fails, then get_segment_performance, which has no
\* try: an error of its query is raised into the page
RunSegmentSection ==
    /\ op = "none"
    /\ \E segmentation_ok, performance_ok \in BOOLEAN :
       \E rank, rank_perf \in RowNumbers(chain_sizes(coe, currentDate)) :
          /\ op' = "segment section"
          /\ result' =
                LET segmentation_df ==
                        IF segmentation_ok
                        THEN get_chain_segmentation(coe, cs, sm, currentDate, rank)
                        ELSE {}
                IN  IF segmentation_df = {}
                    THEN [raised |-> FALSE, segmentation |-> segmentation_df,
                          segment_perf |-> Null]
                    ELSE IF performance_ok
                    THEN [raised |-> FALSE, segmentation |-> segmentation_df,
                          segment_perf |->
                              Val(get_segment_performance(cs, sm, coe, today - 30, today,
                                                          rank_perf))]
                    ELSE [raised |-> TRUE, segmentation |-> segmentation_df,
                          segment_perf |-> Null]
    /\ UNCHANGED data

NextScorecard == RunOverallSection \/ RunSegmentSection

SpecScorecard == InitScorecard /\ [][NextScorecard]_vars

(***************************************************************************)
(* SpecTotals: the overall and the monthly recovery of the dashboard,      *)
(* loaded one after the other with the same filters                        *)
(***************************************************************************)
MaxTotalsRows == 2

\* 14 February
TotalsToday == 45

\* s1 is the Doordash slug of chain A, s2 the UberEats slug of chain B
TotalsMapping ==
    << SmRow("s1", Val(ChainA), Val(<<"x">>), Val(1)),
       SmRow("s2", Val(ChainB), Val(<<"y">>), Val(2)) >>

\* slug and platform; 20 January and 9 February; status, category, won and
\* refund
TotalsRows ==
    Product3(<< <<"s1", Doordash>>, <<"s2", UberEats>> >>,
             <<20, 40>>,
             << <<ACCEPTED, Val(INACCURATE), 75, 100>>,
                <<DENIED, Val(Other), 50, 200>>,
                <<IN_PROGRESS, Val(INACCURATE), 0, 40>> >>,
             LAMBDA sp, d, v :
                 CsRow(sp[1], Val(sp[2]), d, v[1], v[2], Val(v[3]), Val(v[4]), Val(TRUE)))

InitTotals ==
    /\ cs \in Tables(TotalsRows, MaxTotalsRows)
    /\ sm = TotalsMapping
    /\ coe = <<>>
    /\ today = TotalsToday
    /\ currentDate = today
    /\ input = Null
    /\ op = "none"
    /\ result = Null

\* main: overall_df = get_overall_recovery(date_range, platform_filter,
\* chain_filter) and monthly_df = get_monthly_recovery(date_range,
\* platform_filter, chain_filter)
LoadOverallAndMonthly ==
    /\ op = "none"
    /\ \E date_range \in {<<>>, <<today - 30, today>>},
          platform_filter \in {AllPlatforms, {Doordash}},
          chain_filter \in {AllChains, {ChainA}} :
          /\ op' = "overall and monthly"
          /\ input' = [date_range |-> date_range, platform_filter |-> platform_filter,
                       chain_filter |-> chain_filter]
          /\ result' = [overall_df |-> get_overall_recovery(cs, sm, date_range,
                                                            platform_filter, chain_filter),
                        monthly_df |-> get_monthly_recovery(cs, date_range,
                                                            platform_filter, chain_filter)]
    /\ UNCHANGED <<cs, sm, coe, today, currentDate>>

NextTotals == LoadOverallAndMonthly

SpecTotals == InitTotals /\ [][NextTotals]_vars

(***************************************************************************)
(* SpecMonthDates: get_month_dates and the previous month of               *)
(* get_chains_movement.py over the days of three years                     *)
(***************************************************************************)
\* the largest months_back tried
MaxMonthsBack == 26

\* the years of today: 2024 is a leap year
FirstYear == 2023
LastYear == 2025

\* the first, the fifteenth and the last day of every month of the years
CurrentDates ==
    {date(y, m, d) : y \in FirstYear..LastYear, m \in 1..12, d \in {1, 15}}
        \cup {date(y, m, monthrange(y, m)) : y \in FirstYear..LastYear, m \in 1..12}

\* get_chains_movement.py, __main__: current_month_start and the previous
\* month, "if today.month == 1" apart
previous_month(current) ==
    LET current_month_start == date(current.year, current.month, 1)
    IN  IF current.month = 1
        THEN <<date(current.year - 1, 12, 1), date(current.year - 1, 12, 31)>>
        ELSE <<date(current.year, current.month - 1, 1), DayBefore(current_month_start)>>

InitMonthDates ==
    /\ cs = <<>>
    /\ sm = <<>>
    /\ coe = <<>>
    /\ today \in CurrentDates
    /\ currentDate = today
    /\ input = Null
    /\ op = "none"
    /\ result = Null

\* one call of get_month_dates
RunGetMonthDates ==
    /\ op = "none"
    /\ \E months_back \in 1..MaxMonthsBack :
          /\ op' = "get_month_dates"
          /\ input' = Val(months_back)
          /\ result' = get_month_dates(today, months_back)
    /\ UNCHANGED <<cs, sm, coe, today, currentDate>>

\* "Get dates for last 3 complete months": get_month_dates(1), (2) and (3)
RunLastThreeMonths ==
    /\ op = "none"
    /\ op' = "last three months"
    /\ result' = [months_back \in 1..3 |-> get_month_dates(today, months_back)]
    /\ UNCHANGED data

\* get_chains_movement.py, __main__
RunPreviousMonth ==
    /\ op = "none"
    /\ op' = "previous month"
    /\ result' = previous_month(today)
    /\ UNCHANGED data

NextMonthDates == RunGetMonthDates \/ RunLastThreeMonths \/ RunPreviousMonth

SpecMonthDates == InitMonthDates /\ [][NextMonthDates]_vars

(***************************************************************************)
(* What the claims state, computed from the rows alone                     *)
(***************************************************************************)
\* the categories of the tables that contain "inaccurate", in any case
MatchingCategories == {Val(INACCURATE), Val(InaccurateOrder)}

\* the sum of won_amount over all the rows of a batch
BatchWon(b) ==
    SumSeq([i \in 1..Len(b) |->
        IF b[i].enabled_won_disputes = Null THEN 0 ELSE b[i].enabled_won_disputes[1]])

\* the sum of refund_amount over the ACCEPTED/DENIED rows of a matching category
BatchSettled(b) ==
    SumSeq([i \in 1..Len(b) |->
        IF /\ b[i].external_status \in {"ACCEPTED", "DENIED"}
           /\ b[i].error_category \in MatchingCategories
           /\ b[i].enabled_customer_refunds # Null
        THEN b[i].enabled_customer_refunds[1] ELSE 0])

\* the rows of cs dated lo..hi; of cs dated in the month starting at m
RowsDated(lo, hi) == SelectSeq(cs, LAMBDA r : lo <= r.chargeback_date /\ r.chargeback_date <= hi)
RowsOfMonth(t, m) == SelectSeq(t, LAMBDA r : MonthOf(r.chargeback_date) = MonthOf(m))

\* C1: for every batch of records (the window of formula_query, each month of
\* get_monthly_recovery), won is the sum of won_amount over all its records
\* whatever their category, and settled the sum of refund_amount over exactly
\* its ACCEPTED/DENIED records whose category contains "inaccurate" in any
\* case (a NULL category does not match); the three records of the scenario
\* give won = 150, settled = 300 and a win rate of 50.00.
C1_WonAllSettledInaccurate ==
    /\ op = "formula_query" =>
          LET b == RowsDated(today - 30, today)
          IN  /\ b # <<>> =>
                    /\ result.total_won_all_categories = Val(BatchWon(b))
                    /\ result.settled_inaccurate_only = Val(BatchSettled(b))
              /\ cs = ScenarioRecords =>
                    /\ result.total_won_all_categories = Val(150)
                    /\ result.settled_inaccurate_only = Val(300)
                    /\ result.correct_win_rate = Val(5000)
    /\ op = "get_monthly_recovery" =>
          /\ \A i \in 1..Len(result.rows) :
                LET g == result.rows[i]
                    b == RowsOfMonth(IF result.date_range = <<>> THEN cs
                                     ELSE RowsDated(result.date_range[1], result.date_range[2]),
                                     g.month)
                IN  g.won = BatchWon(b) /\ g.settled = BatchSettled(b)
          /\ cs = ScenarioRecords =>
                /\ Len(result.rows) = 1
                /\ result.rows[1].won = 150
                /\ result.rows[1].settled = 300
                /\ result.rows[1].win_rate = Val(5000)

\* the scenario's three records went through formula_query
C1_Witness ==
    /\ op = "formula_query"
    /\ cs = ScenarioRecords
    /\ result.total_won_all_categories = Val(150)

\* the groups an aggregation returned
ReturnedGroups ==
    IF op = "get_platform_breakdown" THEN Range(result)
    ELSE IF op = "get_monthly_recovery" THEN Range(result.rows)
    ELSE IF op = "get_overall_recovery" THEN {result}
    ELSE {}

GroupSettled(g) ==
    IF op = "get_platform_breakdown" THEN g.total_settled
    ELSE IF op = "get_monthly_recovery" THEN Val(g.settled)
    ELSE g.total_settled

\* C2: every group an aggregation returns has a win_rate that is a number,
\* never NULL/NaN, and that is exactly 0 when the group's settled amount is 0,
\* also when its won amount is positive (settled = 0, won = 75).
C2_WinRateFinite ==
    \A g \in ReturnedGroups :
        /\ g.win_rate # Null
        /\ GroupSettled(g) \in {Null, Val(0)} => g.win_rate = Val(0)

\* the segment the table of cutoffs gives a rank
TableSegment(r) ==
    CASE r \in 1..15 -> <<"P", "0">>
      [] r \in 16..40 -> <<"P", "1">>
      [] r \in 41..70 -> <<"P", "2">>
      [] r \in 71..132 -> <<"P", "3">>
      [] r > 132 -> <<"P", "4">>

\* C3: a rank is mapped to its segment by the fixed cutoffs 1-15 -> P0,
\* 16-40 -> P1, 41-70 -> P2, 71-132 -> P3, above 132 -> P4; for every rank
\* r >= 1, alone or as the rank of a chain of the census, the segment
\* assigned is the one of this table.
C3_SegmentCutoffs ==
    /\ op = "SegmentOf" => result = TableSegment(input[1])
    /\ op = "get_chain_segmentation" =>
          \A g \in result : g.segment = TableSegment(g.rank_by_locations)

\* rank 133, the first beyond the last cutoff, was mapped to P4
C3_Witness == op = "SegmentOf" /\ input = Val(133) /\ result = <<"P", "4">>

\* the qualifying locations of a chain: the b_name of its orders of the
\* trailing 30 days that are loop enabled and raised
LocationsOf(ch) ==
    {coe[i].b_name[1] : i \in {j \in 1..Len(coe) :
        /\ coe[j].chain = <<ch>>
        /\ coe[j].b_name # <<>>
        /\ coe[j].order_date >= currentDate - 30
        /\ coe[j].is_loop_enabled = <<TRUE>>
        /\ coe[j].loop_raised_timestamp # <<>>}}

\* the chain names of the orders
ChainNames == {coe[i].chain[1] : i \in {j \in 1..Len(coe) : coe[j].chain # <<>>}}

\* C4: the segmentation gives every chain with at least one qualifying
\* location exactly one rank and one segment, the ranks are exactly 1..N for
\* the N chains of the mapping, and a chain with an empty name or with no
\* qualifying location is absent from the mapping.
C4_EveryChainOnceNoneWithoutLocation ==
    op = "get_chain_segmentation" =>
        /\ \A ch \in ChainNames :
              (ch # <<>> /\ LocationsOf(ch) # {}) =>
                  Cardinality({g \in result : g.chain = ch}) = 1
        /\ {g.rank_by_locations : g \in result} = 1..Cardinality(result)
        /\ \A g \in result : g.chain # <<>> /\ LocationsOf(g.chain) # {}

\* C5: of two chains of the census the one with more locations has the
\* smaller rank; chains with equal counts have distinct ranks that follow
\* one another.
C5_MoreLocationsRankFirst ==
    op = "get_chain_segmentation" =>
        \A a, b \in result :
            LET na == Cardinality(LocationsOf(a.chain))
                nb == Cardinality(LocationsOf(b.chain))
            IN  /\ na > nb => a.rank_by_locations < b.rank_by_locations
                /\ a # b => a.rank_by_locations # b.rank_by_locations
                /\ (na = nb /\ a.rank_by_locations < b.rank_by_locations) =>
                       \A c \in result :
                           (/\ a.rank_by_locations < c.rank_by_locations
                            /\ c.rank_by_locations < b.rank_by_locations)
                               => Cardinality(LocationsOf(c.chain)) = na

\* a census with a larger chain and two chains that tie was segmented
C5_Witness ==
    /\ op = "get_chain_segmentation"
    /\ \E a, b, c \in result :
          /\ b # c
          /\ Cardinality(LocationsOf(a.chain)) > Cardinality(LocationsOf(b.chain))
          /\ Cardinality(LocationsOf(b.chain)) = Cardinality(LocationsOf(c.chain))

\* the location counts and the segments of the scenario, listed by rank
ByRank(Col(_)) ==
    [k \in 1..Cardinality(result) |->
        Col(CHOOSE g \in result : g.rank_by_locations = k)]

\* C6 as stated: the five chains with 50, 40, 40, 10 and 1 locations get the
\* ranks 1..5 and the segments P0, P0, P0, P3, P4.
C6_ScenarioSegmentsAsStated ==
    (op = "get_chain_segmentation" /\ coe = ScenarioCensus) =>
        /\ {g.rank_by_locations : g \in result} = 1..5
        /\ ByRank(LAMBDA g : g.location_count) = <<50, 40, 40, 10, 1>>
        /\ ByRank(LAMBDA g : g.segment) =
               << <<"P", "0">>, <<"P", "0">>, <<"P", "0">>, <<"P", "3">>, <<"P", "4">> >>

\* C6 amended: the five chains get the ranks 1..5 in the order of their
\* counts 50, 40, 40, 10, 1, and, all five ranks being at most 15, each gets P0.
C6_ScenarioAllP0 ==
    (op = "get_chain_segmentation" /\ coe = ScenarioCensus) =>
        /\ Cardinality(result) = 5
        /\ {g.rank_by_locations : g \in result} = 1..5
        /\ ByRank(LAMBDA g : g.location_count) = <<50, 40, 40, 10, 1>>
        /\ ByRank(LAMBDA g : g.segment) =
               << <<"P", "0">>, <<"P", "0">>, <<"P", "0">>, <<"P", "0">>, <<"P", "0">> >>

\* the scenario's census was segmented, its smallest chain ranked fifth
C6_Witness ==
    /\ op = "get_chain_segmentation"
    /\ coe = ScenarioCensus
    /\ \E g \in result : g.chain = <<"E">> /\ g.rank_by_locations = 5

\* the disputes of the month to date whose slug is mapped to a chain with a
\* name: the records the overall totals count
CountedDisputes ==
    SelectSeq(cs, LAMBDA r :
        /\ r.chargeback_date >= DateTruncMonth(today)
        /\ r.chargeback_date <= today
        /\ \E i \in 1..Len(sm) :
              sm[i].slug = r.slug /\ sm[i].chain \notin {<<>>, << <<>> >>})

NumberOf(rows, P(_)) == Len(SelectSeq(rows, P))
AmountOf(v) == IF v = <<>> THEN 0 ELSE v[1]
Total(rows, Col(_)) == SumSeq([i \in 1..Len(rows) |-> AmountOf(Col(rows[i]))])

DisputesWithChain(lo, hi) ==
    SelectSeq(cs, LAMBDA r :
        /\ r.chargeback_date >= lo
        /\ r.chargeback_date <= hi
        /\ \E i \in 1..Len(sm) :
              sm[i].slug = r.slug /\ sm[i].chain \notin {<<>>, << <<>> >>})

\* C8: for one aggregation period the sums over the segments of the dispute
\* count, the won amount and the settled amount equal the overall totals,
\* every dispute of a chain with a name being counted in one segment,
\* whatever the trailing-30-day census contains.
C8_SegmentSumsEqualOverall ==
    /\ op = "reconcile_all_numbers" =>
          LET df == result.segment_df
              counted == DisputesWithChain(DateTruncMonth(today), today)
          IN  /\ Total(df, LAMBDA g : <<g.disputes>>) = result.overall.total_disputes
              /\ Total(df, LAMBDA g : g.recovered) = AmountOf(result.overall.total_recovered)
              /\ Total(df, LAMBDA g : g.settled) = AmountOf(result.overall.total_settled)
              /\ Total(df, LAMBDA g : <<g.disputes>>) = Len(counted)
    /\ op = "reconciliation_check" =>
          LET df == result.segment_df
              counted == DisputesWithChain(today - 30, today)
          IN  /\ Total(df, LAMBDA g : <<g.disputes>>) = result.overall_df.total_disputes
              /\ Total(df, LAMBDA g : g.won) = AmountOf(result.overall_df.total_won)
              /\ Total(df, LAMBDA g : g.settled) = AmountOf(result.overall_df.total_settled)
              /\ Total(df, LAMBDA g : <<g.disputes>>) = Len(counted)

Distance(a, b) == IF a >= b THEN a - b ELSE b - a

\* C9: check_match passes exactly when the absolute difference between the
\* overall total and the sum of the breakdown is at most the tolerance, and
\* otherwise reports that difference; an overall total of 998 against a
\* platform sum of 1000 fails with diff = 2.  The check of
\* reconciliation_check.py passes exactly when the three absolute
\* differences are below its limits of 10 disputes and 100 dollars.
C9_PassesWithinTolerance ==
    /\ op = "check_match" =>
          LET diff == Distance(input.overall_val, input.calculated_val)
          IN  /\ result.check.match <=> diff <= result.tolerance
              /\ ~result.check.match => result.check.status = <<"MISMATCH", <<diff>>>>
              /\ (/\ input.overall_val = 998
                  /\ input.calculated_val = 1000
                  /\ result.tolerance = 1) =>
                     /\ ~result.check.match
                     /\ result.check.status = <<"MISMATCH", <<2>>>>
    /\ op = "within_tolerance" =>
          (result.passed <=>
              /\ Distance(result.dispute_diff, 0) < 10
              /\ Distance(result.won_diff[1], 0) < 100
              /\ Distance(result.settled_diff[1], 0) < 100)

\* the platforms summed to 1000 disputes against an overall total of 998 and
\* the check, at the default tolerance, failed
C9_Witness ==
    /\ op = "check_match"
    /\ input.overall_val = 998
    /\ input.calculated_val = 1000
    /\ result.tolerance = 1
    /\ ~result.check.match

\* the chains with a name that have a dispute dated in a period
ChainsIn(period) ==
    {sm[j].chain[1] : j \in {k \in 1..Len(sm) :
        /\ sm[k].chain \notin {<<>>, << <<>> >>}
        /\ \E i \in 1..Len(cs) :
              /\ cs[i].slug = sm[k].slug
              /\ cs[i].chargeback_date >= period[1]
              /\ cs[i].chargeback_date <= period[2]}}

\* the number of rows of the result, copies counted, among the rows S
RECURSIVE RowCount(_)
RowCount(S) ==
    IF S = {} THEN 0
    ELSE LET x == CHOOSE y \in S : TRUE
         IN  result.df[x] + RowCount(S \ {x})

\* the number of rows of the result that report a chain with a movement
Reported(ch, type) ==
    RowCount({x \in DOMAIN result.df : x.chain = <<ch>> /\ x.movement_type = type})

\* C10: a chain is reported as 'entered' iff it has a dispute in the current
\* period and none in the previous one, as 'exited' iff it has one in the
\* previous period and none in the current one; a chain of both periods is
\* not in the output, no row says 'stayed', and a chain of exactly one
\* period is in exactly one row; the current chains A, B, C against the
\* previous B, C, D give entered = {A} and exited = {D}.
C10_EnteredExitedOnce ==
    op \in {"get_chains_movement", "scorecard_get_chains_movement"} =>
        LET current == ChainsIn(result.current)
            previous == ChainsIn(result.previous)
            rows == DOMAIN result.df
        IN  /\ \A ch \in current \cup previous :
                  /\ Reported(ch, "entered") = IF ch \in current \ previous THEN 1 ELSE 0
                  /\ Reported(ch, "exited") = IF ch \in previous \ current THEN 1 ELSE 0
            /\ \A x \in rows :
                  /\ x.movement_type \in {"entered", "exited"}
                  /\ x.chain # <<>>
                  /\ x.chain[1] \in current \cup previous
            /\ (cs = ScenarioMovement /\ op = "get_chains_movement") =>
                  /\ {x.chain[1] : x \in {y \in rows : y.movement_type = "entered"}}
                        = {<<"A">>}
                  /\ {x.chain[1] : x \in {y \in rows : y.movement_type = "exited"}}
                        = {<<"D">>}

\* the scenario's disputes went through get_chains_movement: A entered
C10_Witness ==
    /\ op = "get_chains_movement"
    /\ cs = ScenarioMovement
    /\ \E x \in DOMAIN result.df : x.chain = << <<"A">> >> /\ x.movement_type = "entered"

\* the chains a movement result reports with a movement type, and the number
\* of rows that report a chain with it
ChainsOfType(df, type) == {x.chain : x \in {y \in DOMAIN df : y.movement_type = type}}

RECURSIVE Copies(_, _)
Copies(df, S) ==
    IF S = {} THEN 0
    ELSE LET x == CHOOSE y \in S : TRUE
         IN  df[x] + Copies(df, S \ {x})

RowsOfType(df, ch, type) ==
    Copies(df, {x \in DOMAIN df : x.chain = ch /\ x.movement_type = type})

\* C11: exchanging the two periods exchanges the movement sets: the chains
\* reported 'entered' with current = A, previous = B are the chains reported
\* 'exited' with current = B, previous = A, and the other way round, with
\* the same number of rows for each chain.
C11_SwapExchangesEnteredExited ==
    op = "get_chains_movement swapped" =>
        /\ ChainsOfType(result.df, "entered") = ChainsOfType(result.swapped, "exited")
        /\ ChainsOfType(result.df, "exited") = ChainsOfType(result.swapped, "entered")
        /\ \A ch \in {x.chain : x \in DOMAIN result.df \cup DOMAIN result.swapped} :
              /\ RowsOfType(result.df, ch, "entered")
                    = RowsOfType(result.swapped, ch, "exited")
              /\ RowsOfType(result.df, ch, "exited")
                    = RowsOfType(result.swapped, ch, "entered")

\* both calls were made on disputes where one chain entered and another exited
C11_Witness ==
    /\ op = "get_chains_movement swapped"
    /\ ChainsOfType(result.df, "entered") # {}
    /\ ChainsOfType(result.df, "exited") # {}
    /\ ChainsOfType(result.df, "entered") # ChainsOfType(result.df, "exited")

\* the disputes get_chains_requiring_attention looks at, and those of one
\* chain on one platform
AttentionScope ==
    attention_rows(cs, sm, today - 365, currentDate,
                   input.platform_filter, input.chain_filter)

EntityRows(e) == SelectSeq(AttentionScope, LAMBDA r : r.chain = e[1] /\ r.platform = e[2])

Entities == {<<AttentionScope[i].chain, AttentionScope[i].platform>> :
                i \in 1..Len(AttentionScope)}

MonthWon(e, mo) ==
    SumSeq(Map(SelectSeq(EntityRows(e),
                         LAMBDA r : DateTruncMonthOfYears(r.chargeback_date) = mo),
               won_amount))

MonthSettled(e, mo) ==
    SumSeq(Map(SelectSeq(EntityRows(e),
                         LAMBDA r : DateTruncMonthOfYears(r.chargeback_date) = mo),
               settled_amount))

\* the months of data of an entity: the calendar months with a settled
\* volume, those that begin on or after a day
MonthsOfData(e) ==
    {mo \in {DateTruncMonthOfYears(EntityRows(e)[i].chargeback_date) :
                i \in 1..Len(EntityRows(e))} : MonthSettled(e, mo) > 0}

MonthsSince(e, start) == {mo \in MonthsOfData(e) : mo >= start}

RECURSIVE RateSum(_, _)
RateSum(e, M) ==
    IF M = {} THEN <<0, 1>>
    ELSE LET mo == CHOOSE x \in M : TRUE
         IN  RatAdd(Rat(100 * MonthWon(e, mo), MonthSettled(e, mo)), RateSum(e, M \ {mo}))

\* the average monthly win rate over the months M (M not empty)
MeanRate(e, M) == Rat(RateSum(e, M)[1], RateSum(e, M)[2] * Cardinality(M))

RECURSIVE VolumeOf(_, _)
VolumeOf(e, M) ==
    IF M = {} THEN 0
    ELSE LET mo == CHOOSE x \in M : TRUE
         IN  MonthSettled(e, mo) + VolumeOf(e, M \ {mo})

\* the conditions of the flag, the long average taken over the months
\* averaged and the volume and the count of months over the months window,
\* the short average over the months that begin in the last 90 days
Declining(e, averaged, window) ==
    LET short == MonthsSince(e, today - 90)
    IN  /\ Cardinality(window) >= 3
        /\ averaged # {}
        /\ short # {}
        /\ MeanRate(e, averaged)[1] > 0
        /\ MeanRate(e, short)[1] > 0
        /\ VolumeOf(e, window) > 1000
        /\ LET long_avg == MeanRate(e, averaged)
               short_avg == MeanRate(e, short)
           IN  \* (long_avg - short_avg) / long_avg * 100 >= 20
               5 * short_avg[1] * long_avg[2] <= 4 * long_avg[1] * short_avg[2]

FlaggedEntities == {<<row.chain, row.platform>> : row \in result.df}

\* C12: an entity is in the result iff it has at least 3 months of data, its
\* 12-month and 3-month average win rates are both strictly positive, its
\* settled volume over the long window is above 1000 and
\* (long_avg - short_avg) / long_avg * 100 >= 20; every other entity is left
\* out.  The long window is one window for the average, the volume and the
\* months of data: either the months of the disputes dated in the last 365
\* days, or the months that begin in the last 365 days.
C12_FlaggedIffDeclining ==
    op = "get_chains_requiring_attention" =>
        \E from \in {0, today - 365} :
            \A e \in Entities \cup FlaggedEntities :
                e \in FlaggedEntities
                    <=> Declining(e, MonthsSince(e, from), MonthsSince(e, from))

\* the same conditions with the windows of the query: the average over the
\* months that begin in the last 365 days, the volume and the months of data
\* over the months of the disputes dated in the last 365 days
C12_FlaggedWithTheWindowsOfTheQuery ==
    op = "get_chains_requiring_attention" =>
        \A e \in Entities \cup FlaggedEntities :
            e \in FlaggedEntities
                <=> Declining(e, MonthsSince(e, today - 365), MonthsOfData(e))

\* chain A is flagged on disputes none of which is older than the months
\* that begin in the last 365 days
C12_FlaggedWitness ==
    /\ op = "get_chains_requiring_attention"
    /\ result.df # {}
    /\ \A i \in 1..Len(cs) : cs[i].chargeback_date >= 32

C13_WarningAt30 ==
    /\ op = "get_chains_requiring_attention"
    /\ \E row \in result.display_attention :
          row.decline_percentage = 3000 /\ row.Alert = "Warning"

\* the rows of a recovery view with their won, settled, lost and pending
\* columns under one name (the overall view names them total_...)
ViewOps ==
    {"get_overall_recovery", "get_monthly_recovery", "get_platform_recovery",
     "get_chain_recovery"}

ViewFigures ==
    IF op = "get_overall_recovery"
    THEN {[won |-> r.total_won, settled |-> r.total_settled, lost |-> r.total_lost,
           pending |-> r.total_pending] : r \in result}
    ELSE {[won |-> Val(r.won), settled |-> Val(r.settled), lost |-> Val(r.lost),
           pending |-> Val(r.pending)] : r \in result}

\* C14: in every recovery result (overall, monthly, per platform, per chain)
\* lost is settled - won: won + lost = settled, and lost is negative exactly
\* when won > settled; when a sum of the overall view is NULL (no dispute in
\* the selection) lost is missing as well.
C14_LostIsSettledMinusWon ==
    op \in ViewOps =>
        \A f \in ViewFigures :
            IF IsNull(f.won) \/ IsNull(f.settled)
            THEN IsNull(f.lost)
            ELSE /\ ~IsNull(f.lost)
                 /\ f.won[1] + f.lost[1] = f.settled[1]
                 /\ f.lost[1] < 0 <=> f.won[1] > f.settled[1]

\* a per-chain result where more was won than settled
C14_Witness ==
    /\ op = "get_chain_recovery"
    /\ \E r \in result : r.won > r.settled /\ r.lost < 0 /\ r.settled > 0

\* the disputes (indices of cs) a row of a recovery view aggregates
ChainOfSlug(slug) ==
    LET hits == SelectSeq(sm, LAMBDA x : x.slug = slug)
    IN  IF hits = <<>> THEN Null ELSE hits[1].chain

InSelection(i) ==
    /\ DateFilter(cs[i], input.date_range)
    /\ input.platform_filter # AllPlatforms
          => (~IsNull(cs[i].platform) /\ cs[i].platform[1] \in input.platform_filter)
    /\ input.chain_filter # AllChains
          => (~IsNull(ChainOfSlug(cs[i].slug))
              /\ ChainOfSlug(cs[i].slug)[1] \in input.chain_filter)

DisputesOf(r) ==
    {i \in 1..Len(cs) :
        /\ InSelection(i)
        /\ op = "get_monthly_recovery" => DateTruncMonth(cs[i].chargeback_date) = r.month
        /\ op = "get_platform_recovery" => cs[i].platform = r.platform
        /\ op = "get_chain_recovery" => ChainOfSlug(cs[i].slug) = r.chain}

\* the refund of a dispute that is pending: inaccurate, and TO_BE_RAISED or
\* IN_PROGRESS with raised = true
PendingRefund(r) ==
    IF /\ r.error_category \in MatchingCategories
       /\ \/ r.external_status = TO_BE_RAISED
          \/ r.external_status = IN_PROGRESS /\ r.loop_raised = Val(TRUE)
    THEN Coalesce(r.enabled_customer_refunds, 0)
    ELSE 0

RECURSIVE PendingOver(_)
PendingOver(S) ==
    IF S = {} THEN 0
    ELSE LET i == CHOOSE x \in S : TRUE
         IN  PendingRefund(cs[i]) + PendingOver(S \ {i})

PendingOfRow(r) ==
    IF op = "get_overall_recovery" THEN Coalesce(r.total_pending, 0) ELSE r.pending

\* C15: in every recovery view (overall, monthly, per platform, per chain)
\* pending is the sum of refund_amount over the inaccurate disputes that are
\* TO_BE_RAISED, or IN_PROGRESS with raised = true; a dispute of another
\* status (EXPIRED, IN_PROGRESS not raised) adds nothing to pending.
C15_PendingIsToBeRaisedOrRaisedInProgress ==
    op \in ViewOps =>
        \A r \in result : PendingOfRow(r) = PendingOver(DisputesOf(r))

\* the same for the overall and the monthly view alone
C15_PendingOfOverallAndMonthly ==
    op \in {"get_overall_recovery", "get_monthly_recovery"} =>
        \A r \in result : PendingOfRow(r) = PendingOver(DisputesOf(r))

\* the overall view over a selection with a pending and an expired dispute
C15_OverallWitness ==
    /\ op = "get_overall_recovery"
    /\ \E r \in result : PendingOfRow(r) > 0
    /\ \E i \in 1..Len(cs) :
          cs[i].external_status = EXPIRED /\ cs[i].error_category = Val(INACCURATE)

\* the location count of each chain in a segmentation
CountsOf(rows) == {<<g.chain, g.location_count>> : g \in rows}

\* no two chains of a segmentation have the same count, so that the
\* numbering of the ranks is determined
NoTies(rows) == \A g, h \in rows : g # h => g.location_count # h.location_count

Unchanged(before, now) ==
    /\ CountsOf(before) = CountsOf(now)
    /\ NoTies(now) => before = now

\* C16: location_count counts distinct (chain, b_name) pairs and never
\* slugs: after a counted location is given one more platform slug, every
\* chain has the location_count it had before, and (where the counts do not
\* tie) the same rank and segment, in the segmentation by orders and in the
\* one by disputes.
C16_NewSlugChangesNoCount ==
    op = "segmented again" =>
        /\ Unchanged(result.before.orders, result.now.orders)
        /\ Unchanged(result.before.disputes, result.now.disputes)

\* the same for the segmentation of get_chain_segmentation alone
C16_NewSlugChangesNoCountOfOrders ==
    op = "segmented again" =>
        Unchanged(result.before.orders, result.now.orders)

\* chain A, of two counted locations, was segmented again after one of them
\* got a second slug
C16_OrdersWitness ==
    /\ op = "segmented again"
    /\ input # Null
    /\ \E g \in result.now.orders : g.chain = ChainA /\ g.location_count = 2

\* C17: for any record set the number of distinct CONCAT(chain, b_name)
\* values equals the sum over the chains of each chain's distinct location
\* count and equals the number of distinct CONCAT(chain, '|', b_name) values
\* (a sum over no chain is read as 0).
C17_ThreeCountsAgree ==
    op = "test_reconciliation" =>
        /\ result.total1 = Coalesce(result.total2, 0)
        /\ result.total1 = result.total3

\* the three counts agree on two locations of one chain
C17_AgreeWitness ==
    /\ op = "test_reconciliation"
    /\ result.total1 = 2
    /\ result.passed

\* the trailing-30-day census of the segment breakdown, from the tables
\* alone: the slugs of each named chain with a dispute in the last 30 days
CensusSlugs(ch) ==
    {sm[j].slug : j \in {k \in 1..Len(sm) :
        /\ sm[k].chain = <<ch>>
        /\ \E i \in 1..Len(cs) :
              cs[i].slug = sm[k].slug /\ cs[i].chargeback_date >= currentDate - 30}}

CensusChains ==
    {ch \in {sm[j].chain[1] : j \in {k \in 1..Len(sm) : sm[k].chain # <<>>}} :
        ch # <<>> /\ CensusSlugs(ch) # {}}

\* the chains of the segment asked for with a dispute in a period, given the
\* segments of the chains
ChainsOfSegmentIn(period, segments) ==
    {g.chain : g \in {h \in segments :
        /\ h.segment = input[1]
        /\ \E i \in 1..Len(cs), j \in 1..Len(sm) :
              /\ cs[i].slug = sm[j].slug
              /\ sm[j].chain = <<h.chain>>
              /\ cs[i].chargeback_date >= period[1]
              /\ cs[i].chargeback_date <= period[2]}}

MovementCensus ==
    IF op = "get_chains_movement"
    THEN ChainsIn(<<currentDate - 30, currentDate + 365>>)
    ELSE {ch \in ChainNames :
            /\ ch # <<>>
            /\ \E i \in 1..Len(coe) :
                  /\ coe[i].chain = <<ch>>
                  /\ coe[i].order_date >= currentDate - 30
                  /\ coe[i].is_loop_enabled = <<TRUE>>
                  /\ coe[i].loop_raised_timestamp # <<>>}

\* the chains that entered or exited
Moved == (ChainsIn(result.current) \ ChainsIn(result.previous))
             \cup (ChainsIn(result.previous) \ ChainsIn(result.current))

\* C19: a chain that entered or exited and that the segmentation census does
\* not contain (the empty census included) is still listed, in one row, with
\* segment P4 and location_count 0.
C19_ChainOutsideCensusListedAsP4 ==
    op \in {"get_chains_movement", "scorecard_get_chains_movement"} =>
        \A ch \in Moved \ MovementCensus :
            /\ Reported(ch, "entered") + Reported(ch, "exited") = 1
            /\ \A x \in DOMAIN result.df :
                  x.chain = <<ch>> => (x.segment = P4 /\ x.location_count = 0)

\* the scorecard's report over an empty census lists a chain that entered
C19_Witness ==
    /\ op = "scorecard_get_chains_movement"
    /\ coe = <<>>
    /\ \E x \in DOMAIN result.df :
          x.movement_type = "entered" /\ x.segment = P4 /\ x.location_count = 0

\* the report of get_chains_movement.py lists a chain that exited and has no
\* dispute in the census
C19_ExitedWitness ==
    /\ op = "get_chains_movement"
    /\ \E x \in DOMAIN result.df :
          x.movement_type = "exited" /\ x.segment = P4 /\ x.location_count = 0

\* the chain -> (rank, segment) mapping of the rows of a segmentation
RankAndSegment(rows) ==
    {<<x.chain, x.rank_by_locations, x.segment>> : x \in rows}

\* C20: the segmentation computed twice over the same census gives every
\* chain, those of equal location counts included, the same rank and the
\* same segment both times.
C20_TwiceSameRankAndSegment ==
    op \in {"get_chain_segmentation twice", "chain_segments twice"} =>
        RankAndSegment(result.first) = RankAndSegment(result.second)

\* what does hold: the two mappings agree on every chain whose location
\* count no other chain has, and are the same when no two chains tie
C20_TwiceSameWhereNoTie ==
    op \in {"get_chain_segmentation twice", "chain_segments twice"} =>
        \A x \in result.first :
            (\A y \in result.first : y # x => y.location_count # x.location_count)
                => x \in result.second

\* two chains of one location each take the ranks 15 and 16 in one run and
\* 16 and 15 in the other: the segment of each differs between the runs
C20_SegmentDiffers ==
    /\ op = "get_chain_segmentation twice"
    /\ \E x \in result.first, y \in result.second :
          /\ x.chain = y.chain
          /\ x.location_count = y.location_count
          /\ x.segment # y.segment

\* the same with the census of get_chains_movement.py: the rank differs
C20_RankDiffers ==
    /\ op = "chain_segments twice"
    /\ \E x \in result.first, y \in result.second :
          /\ x.chain = y.chain
          /\ x.rank_by_locations # y.rank_by_locations

\* the upper edge of each bracket but the last, in cents
BracketEdges == <<2000, 4000, 6000, 8000, 10000, 15000, 20000>>

\* the subtotal v lies in the k-th bracket: above the edge before it, and at
\* most its own edge
InBracket(v, k) ==
    /\ k > 1 => v > BracketEdges[k - 1]
    /\ k < 8 => v <= BracketEdges[k]

\* the subtotals of the table, NULL as 0
SubtotalsOf(t) == {Coalesce(t[i].subtotal, 0) : i \in 1..Len(t)}

\* C21: every subtotal (NULL as 0) falls in exactly one of the eight brackets,
\* the one whose upper edge is the first at or above it, and the order 1..8
\* of the bracket is the position of its label; the rows returned carry
\* the label of their order.
C21_OneBracketOrderMatchesLabel ==
    op \in {"get_win_rate_by_order_value", "get_win_rate_by_order_value_monthly"} =>
        /\ \A v \in SubtotalsOf(cs) :
              /\ bracket_order(Val(v)) \in 1..8
              /\ \A k \in 1..8 : InBracket(v, k) <=> k = bracket_order(Val(v))
              /\ value_bracket(Val(v)) = BracketLabels[bracket_order(Val(v))]
        /\ \A i \in DOMAIN cs :
              cs[i].subtotal = Null => bracket_order(cs[i].subtotal) = 1
        /\ \A i \in DOMAIN result :
              /\ result[i].value_bracket = BracketLabels[result[i].bracket_order]
              /\ \E j \in DOMAIN cs :
                    bracket_order(cs[j].subtotal) = result[i].bracket_order

\* a subtotal on an edge and the one a cent above it, in two brackets
C21_Witness ==
    /\ op = "get_win_rate_by_order_value"
    /\ Len(result) = 2
    /\ \E i, j \in DOMAIN cs :
          /\ cs[i].subtotal = Val(10000)
          /\ cs[j].subtotal = Val(10001)
    /\ result[1].value_bracket = "$80-100"
    /\ result[2].value_bracket = "$100-150"

\* the rows of a result follow one another in the order Leq of their keys
InOrder(df, Leq(_, _)) == \A i, j \in DOMAIN df : i < j => Leq(df[i], df[j])

\* the rows by month, by bracket order, and by bracket order then month
MonthsInKeyOrder ==
    op = "get_monthly_recovery" =>
        InOrder(result, LAMBDA x, y : x.month < y.month)

BracketsInKeyOrder ==
    /\ op = "get_win_rate_by_order_value" =>
          InOrder(result, LAMBDA x, y : x.bracket_order < y.bracket_order)
    /\ op = "get_win_rate_by_order_value_monthly" =>
          InOrder(result, LAMBDA x, y :
              \/ x.bracket_order < y.bracket_order
              \/ x.bracket_order = y.bracket_order /\ x.month < y.month)

\* C22: the rows of an aggregation come in the natural order of the grouping
\* key, whatever the metrics: the platforms alphabetically, the months
\* chronologically, the value brackets by bracket order.
C22_RowsInKeyOrder ==
    /\ MonthsInKeyOrder
    /\ BracketsInKeyOrder
    /\ op = "get_platform_recovery" =>
          InOrder(result, LAMBDA x, y : NullableStrLeq(x.platform, y.platform))

\* what does hold: the months and the value brackets come in key order
C22_MonthsAndBracketsInKeyOrder == MonthsInKeyOrder /\ BracketsInKeyOrder

\* and the platforms come by total_contested, the largest first
C22_PlatformsByContested ==
    op = "get_platform_recovery" =>
        InOrder(result, LAMBDA x, y : x.total_contested >= y.total_contested)

\* UberEats, of the larger total_contested, is returned before Doordash
C22_UberEatsFirst ==
    /\ op = "get_platform_recovery"
    /\ Len(result) = 2
    /\ result[1].platform = Val(UberEats)
    /\ result[2].platform = Val(Doordash)
    /\ result[1].total_contested > result[2].total_contested

\* no two rows of a breakdown carry the same (trimmed) platform name
OneRowPerPlatform(df) ==
    \A i, j \in DOMAIN df : df[i].platform = df[j].platform => i = j

\* C23: the platform is trimmed before it is grouped on, so a per-platform
\* breakdown has at most one row for each trimmed platform name ('Doordash'
\* and 'Doordash ' fall in one group).
C23_OneRowPerTrimmedPlatform ==
    /\ op = "get_platform_breakdown" => OneRowPerPlatform(result)
    /\ op = "reconcile_all_numbers" => OneRowPerPlatform(result.platform_df)

\* what does hold: the rows of the scorecard that carry one trimmed name
\* carry one location count
C23_SameNameSameLocationCount ==
    op = "get_platform_breakdown" =>
        \A i, j \in DOMAIN result :
            result[i].platform = result[j].platform
                => result[i].unique_locations = result[j].unique_locations

\* the scorecard returns two rows named Doordash, of the disputes of
\* 'Doordash' and of 'Doordash '
C23_TwoRowsOfDoordash ==
    /\ op = "get_platform_breakdown"
    /\ \E i, j \in DOMAIN cs :
          cs[i].platform = Val(Doordash) /\ cs[j].platform = Val(DoordashPadded)
    /\ \E i, j \in DOMAIN result :
          /\ i # j
          /\ result[i].platform = Val(Doordash)
          /\ result[j].platform = Val(Doordash)

\* the number of the disputes that are IN_PROGRESS or TO_BE_RAISED
InProgressOrToBeRaised(rows) ==
    Len(SelectSeq(rows, LAMBDA r : r.external_status \in {IN_PROGRESS, TO_BE_RAISED}))

\* the pending count of a row is the sum of its IN_PROGRESS and TO_BE_RAISED
\* counts (a count without rows is NULL, read as 0)
PendingAdds(row) ==
    Coalesce(row.disputes_pending, 0) =
        Coalesce(row.disputes_in_progress, 0) + Coalesce(row.disputes_to_be_raised, 0)

\* C24: in every breakdown of dispute counts the pending count is the number
\* of IN_PROGRESS disputes plus the number of TO_BE_RAISED disputes; an
\* EXPIRED dispute is never counted as pending.
C24_PendingIsInProgressPlusToBeRaised ==
    /\ op = "get_platform_breakdown" => \A i \in DOMAIN result : PendingAdds(result[i])
    /\ op = "reconcile_all_numbers" =>
          /\ Coalesce(result.overall.pending_count, 0)
                = InProgressOrToBeRaised(CountedDisputes)
          /\ result.platform_totals.pending = InProgressOrToBeRaised(CountedDisputes)

\* what does hold: the scorecard's breakdown leaves the EXPIRED disputes out
\* of its pending count
C24_ScorecardPendingWithoutExpired ==
    op = "get_platform_breakdown" =>
        \A i \in DOMAIN result :
            /\ PendingAdds(result[i])
            /\ Coalesce(result[i].disputes_won, 0) + Coalesce(result[i].disputes_lost, 0)
                  + Coalesce(result[i].disputes_pending, 0)
                  + Coalesce(result[i].disputes_expired, 0)
                  = result[i].total_disputed

\* the reconciliation counts an EXPIRED dispute, the only one, as pending
C24_ExpiredCountedAsPending ==
    /\ op = "reconcile_all_numbers"
    /\ Len(CountedDisputes) = 1
    /\ CountedDisputes[1].external_status = EXPIRED
    /\ result.overall.pending_count = Val(1)


\* C25: no data-fetch function lets an error of its query reach the page:
\* after every section, no exception has been raised
C25_NoFetchPropagatesException ==
    IsNull(result) \/ ~result.raised

\* C25, the functions with a try: when the overview query fails every period
\* of the overview is None and no table is drawn, and nothing is raised
C25_OverviewFailureGivesNone ==
    (op = "overall section" /\ IsNull(result.table)) =>
        /\ ~result.raised
        /\ \A k \in 1..5 : IsNull(result.overview[k])
        /\ IsNull(result.platforms)

\* C25: get_chain_segmentation returned chains and the query of
\* get_segment_performance failed
C25_SegmentPerformanceRaised ==
    /\ op = "segment section"
    /\ result.raised
    /\ result.segmentation # {}


\* the rows of the five platform tabs of the page, as a set
PlatformTabRows ==
    IF op = "overall section" /\ ~IsNull(result.platforms)
    THEN UNION {Range(result.platforms[1][k]) : k \in 1..5}
    ELSE {}

\* the rows of the overview table of the page, as a set
OverviewTableRows ==
    IF op = "overall section" /\ ~IsNull(result.table)
    THEN Range(result.table[1])
    ELSE {}

\* C26: wherever a per-location average is shown, a group whose location
\* count is 0 has the average 0
C26_NoLocationsGiveZeroPerLocation ==
    /\ \A row \in OverviewTableRows :
           row.unique_locations = 0 => row.recovered_per_location = Rat(0, 1)
    /\ \A row \in PlatformTabRows :
           row.unique_locations = 0 => row.recovered_per_location = Rat(0, 1)

\* C26, the overview alone: with no location the $/Location of a period is
\* 0, and with no slug its average per location per month is 0
C26_OverviewNoLocationsGiveZero ==
    \A row \in OverviewTableRows :
        /\ row.unique_locations = 0 => row.recovered_per_location = Rat(0, 1)
        /\ row.dd_locations + row.ue_locations + row.gh_locations = 0 =>
               row.avg_per_location_per_month = Rat(0, 1)

\* C26: a platform tab shows a platform with no location and a $/Location
\* equal to the whole amount recovered
C26_PlatformWithoutLocationsShowsRecovered ==
    \E row \in PlatformTabRows :
        /\ row.unique_locations = 0
        /\ row.total_recovered = Val(75)
        /\ row.recovered_per_location = Rat(75, 1)

\* C26: the overview shows a period with recoveries and no location
C26_OverviewWithoutLocations ==
    \E row \in OverviewTableRows :
        /\ row.unique_locations = 0
        /\ row.recovered > 0


\* the disputes of a period of the page that pass the filters of the sidebar
FilteredDisputes(k) ==
    SelectSeq(JoinSm(cs, sm),
              LAMBDA r : /\ Between(r.chargeback_date, ScorecardPeriods(today)[k][1],
                                    ScorecardPeriods(today)[k][2])
                         /\ ChainPresent(r)
                         /\ FilterClause(r, input.chains, input.platforms, input.bnames))

\* the periods of the overview count and total the filtered disputes only,
\* and count the locations of the filtered orders only
OverviewFiltered ==
    op = "overall section" =>
        \A k \in 1..5 :
            ~IsNull(result.overview[k]) =>
                /\ result.overview[k][1].disputed = Len(FilteredDisputes(k))
                /\ result.overview[k][1].recovered =
                       SumSeq(Map(FilteredDisputes(k), won_amount))
                /\ (input.chains = {<<"B">>} \/ input.bnames = {<<"y">>}) =>
                       result.overview[k][1].unique_locations = 0

\* the platform tabs count the filtered disputes only
PlatformTabsFiltered ==
    (op = "overall section" /\ ~IsNull(result.platforms)) =>
        \A k \in 1..5 :
            SumSeq(Map(result.platforms[1][k], LAMBDA row : row.total_disputed)) =
                Len(FilteredDisputes(k))

\* the segments recover no more than the filtered disputes of the last 30
\* days won
SegmentsFiltered ==
    (op = "segment section" /\ ~IsNull(result.segment_perf)) =>
        SumSeq(Map(result.segment_perf[1], LAMBDA row : Coalesce(row.total_won, 0))) <=
            SumSeq(Map(FilteredDisputes(1), won_amount))

\* C27: the chain, platform and location filters of the sidebar are applied
\* to every section: the overview, the platform breakdown and the segment
\* performance show the filtered records only
C27_FiltersAppliedToAllSections ==
    OverviewFiltered /\ PlatformTabsFiltered /\ SegmentsFiltered

\* C27, the overview alone shows the filtered records only
C27_FiltersAppliedToOverview ==
    OverviewFiltered

\* C27: under the platform filter Doordash a platform tab shows UberEats
C27_UberEatsShownUnderDoordashFilter ==
    /\ input.platforms = {Doordash}
    /\ \E row \in PlatformTabRows : row.platform = Val(UberEats)

\* C27: under the chain filter B the segments show an amount won by chain A
C27_SegmentOfOtherChainShown ==
    /\ input.chains = {<<"B">>}
    /\ op = "segment section"
    /\ ~IsNull(result.segment_perf)
    /\ \E row \in Range(result.segment_perf[1]) : Coalesce(row.total_won, 0) > 0

\* C27: under the platform filter Doordash the overview leaves an UberEats
\* dispute of the period out
C27_OverviewLeavesUberEatsOut ==
    /\ input.platforms = {Doordash}
    /\ op = "overall section"
    /\ ~IsNull(result.overview[1])
    /\ result.overview[1][1].disputed = 1
    /\ Len(cs) = 2
    /\ \A i \in 1..2 : cs[i].chargeback_date = 130
    /\ \E i \in 1..2 : cs[i].platform = Val(UberEats)


\* the disputes of the last 30 days, with no filter
Last30Disputes ==
    scorecard_monthly_data(cs, sm, today - 30, today, {}, {}, {})

\* the segment performance has one row and that row covers every dispute of
\* the last 30 days: the record set of the overview of the same period
OneSegmentOfAllDisputes ==
    /\ op = "segment section"
    /\ ~IsNull(result.segment_perf)
    /\ Len(result.segment_perf[1]) = 1
    /\ result.segment_perf[1][1].dispute_count = Len(Last30Disputes)

\* C28: the places that report a dollar win rate use one rule, won over
\* every category and settled over ACCEPTED/DENIED inaccurate disputes, so
\* the segment performance reports the won, settled and win rate that the
\* two-tier rule gives for its records
C28_SegmentsUseTwoTierRule ==
    OneSegmentOfAllDisputes =>
        LET row == result.segment_perf[1][1]
            won == SqlSum(Map(Last30Disputes, won_amount))
            settled == SqlSum(Map(Last30Disputes, settled_amount))
        IN  /\ row.total_won = won
            /\ row.total_settled = settled
            /\ row.win_rate = SqlWinRate(won, settled)

\* C28, the overview of the scorecard: won over every category, settled
\* over ACCEPTED/DENIED inaccurate disputes, and their quotient
C28_OverviewUsesTwoTierRule ==
    (op = "overall section" /\ ~IsNull(result.overview[1]) /\ input.chains = {}
        /\ input.platforms = {} /\ input.bnames = {}) =>
        LET row == result.overview[1][1]
            won == SqlSum(Map(Last30Disputes, won_amount))
            settled == SqlSum(Map(Last30Disputes, settled_amount))
        IN  /\ row.recovered = Coalesce(won, 0)
            /\ row.settled = Coalesce(settled, 0)
            /\ row.win_rate = Coalesce(SqlWinRate(won, settled), 0)

\* C28: over one DENIED dispute of another category the segment performance
\* reports its refund as settled and a win rate of 25 %, where the two-tier
\* rule settles nothing
C28_SegmentSettlesOtherCategory ==
    /\ OneSegmentOfAllDisputes
    /\ Len(cs) = 1
    /\ result.segment_perf[1][1].total_won = Val(50)
    /\ result.segment_perf[1][1].total_settled = Val(200)
    /\ result.segment_perf[1][1].win_rate = Val(2500)
    /\ SumSeq(Map(Last30Disputes, settled_amount)) = 0

\* C28: over the same dispute the overview reports nothing settled and the
\* win rate 0
C28_OverviewSettlesNothing ==
    /\ op = "overall section"
    /\ ~IsNull(result.overview[1])
    /\ input.chains = {}
    /\ input.platforms = {}
    /\ input.bnames = {}
    /\ Len(cs) = 1
    /\ Len(Last30Disputes) = 1
    /\ result.overview[1][1].recovered = 50
    /\ result.overview[1][1].settled = 0
    /\ result.overview[1][1].win_rate = 0


\* the sums over the months of monthly_df are the totals of overall_df (a
\* total over no dispute read as 0)
MonthlySumsAreOverallTotals ==
    /\ SumSeq(Map(result.monthly_df, LAMBDA g : g.won)) =
           Coalesce(result.overall_df.total_won, 0)
    /\ SumSeq(Map(result.monthly_df, LAMBDA g : g.settled)) =
           Coalesce(result.overall_df.total_settled, 0)

\* C29: under one date range, platform filter and chain filter the won and
\* the settled of get_monthly_recovery, summed over the months, are the
\* total_won and the total_settled of get_overall_recovery
C29_MonthlySumsEqualOverallTotals ==
    op = "overall and monthly" => MonthlySumsAreOverallTotals

\* C29, with every chain selected: the sums are the totals
C29_EqualWhenAllChains ==
    (op = "overall and monthly" /\ input.chain_filter = AllChains) =>
        MonthlySumsAreOverallTotals

\* C29: under the chain filter A the months still hold what chain B won
C29_MonthlyIgnoresChainFilter ==
    /\ op = "overall and monthly"
    /\ input.chain_filter = {ChainA}
    /\ result.overall_df.total_won = Val(75)
    /\ SumSeq(Map(result.monthly_df, LAMBDA g : g.won)) = 125

\* C29: with every chain selected, two months add up to the totals
C29_TwoMonthsAddUp ==
    /\ op = "overall and monthly"
    /\ input.chain_filter = AllChains
    /\ Len(result.monthly_df) = 2
    /\ result.overall_df.total_won = Val(125)
    /\ result.overall_df.total_settled = Val(100)


\* the months counted from the year 0
MonthIndex(d) == 12 * d.year + d.month - 1

\* the window is the calendar month months_back months before the month of
\* current: it starts on the first of that month, its month is one of the
\* twelve, and the day after its end is the first of the month after
IsMonthBefore(window, current, months_back) ==
    /\ window[1].day = 1
    /\ window[1].month \in 1..12
    /\ MonthIndex(window[1]) = MonthIndex(current) - months_back
    /\ window[2].year = window[1].year
    /\ window[2].month = window[1].month
    /\ toordinal(window[2]) + 1 =
           toordinal(date((MonthIndex(window[1]) + 1) \div 12,
                          ((MonthIndex(window[1]) + 1) % 12) + 1, 1))

\* C30: for every months_back >= 1 and every current date get_month_dates
\* returns the first and the last day of the calendar month months_back
\* months before the current month, the month in 1..12 and the year one less
\* for every wrap; the windows of 1, 2 and 3 are pairwise disjoint and
\* contiguous; the previous month of get_chains_movement.py is the window
\* of 1
C30_MonthWindows ==
    /\ op = "get_month_dates" => IsMonthBefore(result, today, input[1])
    /\ op = "last three months" =>
           /\ \A k \in 1..3 : IsMonthBefore(result[k], today, k)
           /\ \A k \in 1..2 :
                  /\ toordinal(result[k + 1][2]) < toordinal(result[k][1])
                  /\ toordinal(result[k + 1][2]) + 1 = toordinal(result[k][1])
           /\ toordinal(result[1][2]) < toordinal(date(today.year, today.month, 1))
    /\ op = "previous month" => IsMonthBefore(result, today, 1)

\* C30: eleven months before a January the loop wraps once
\* and the window is the February of a leap year
C30_Witness ==
    /\ op = "get_month_dates"
    /\ today = date(2025, 1, 31)
    /\ input = Val(11)
    /\ result = <<date(2024, 2, 1), date(2024, 2, 29)>>

\* C30: the loop runs three times
C30_ThreeWraps ==
    /\ op = "get_month_dates"
    /\ today.year - result[1].year = 3

\* C30: the three windows before a February cross the year
C30_WindowsAcrossTheYear ==
    /\ op = "last three months"
    /\ today = date(2025, 2, 15)
    /\ result[1] = <<date(2025, 1, 1), date(2025, 1, 31)>>
    /\ result[2] = <<date(2024, 12, 1), date(2024, 12, 31)>>
    /\ result[3] = <<date(2024, 11, 1), date(2024, 11, 30)>>

====
